---- MODULE Spec2Model ----
(***************************************************************************)
(* Verification model of the eBay-Photos card wizard:                      *)
(*   - the export orchestrator  (web/src/services/export.ts, the copy      *)
(*     with progress reporting and collision checks, held in               *)
(*     src/web/src/utils/comlink.ts lines 163-594),                        *)
(*   - resolveDetectedCard (export and naming-step copies),                *)
(*   - the pairing step (src/web/src/routes/pairs.tsx).                    *)
(*                                                                         *)
(* Strings whose characters the code inspects (file ids, detection ids)    *)
(* are sequences of one-character strings.                                 *)
(***************************************************************************)
EXTENDS Integers, Sequences, FiniteSets, TLC

VARIABLES
    \* ---- exportSession (one orchestrator run at a time) ----
    xPairs,        \* params.pairs
    xNaming,       \* params.naming: sequence of [pairId, folderPath]
    xOpts,         \* options: [directory, includeManifests, includeWarped]
    xEnv,          \* environment: [faults (worker errors, revoked access), runLimit]
    dirFS,         \* the selected directory: relative path -> content
    dirPermitted,  \* whether the directory handle still grants access
    pc,            \* position of the exportSession coroutine
    idx,           \* the loop variable `index` (1-based here)
    wk,            \* the Worker: [created, released, terminated] call counts of this run
    idCounter,     \* wrap(): idCounter
    pending,       \* wrap(): keys of the pending map
    toWorker,      \* messages posted to the worker, not yet handled
    toMain,        \* messages posted by the worker, not yet handled
    cur,           \* locals of the current loop iteration
    queue,         \* result.images still to be written in this iteration
    zip,           \* the JSZip instance: relative path -> content
    manifests,     \* the `manifests` array
    mIdx,          \* position in the manifest loop
    completed,     \* `completed`
    total,         \* `totalSteps`
    events,        \* every update passed to onProgress, in order
    thrown,        \* the error travelling through the finally block
    settled,       \* state of the promise exportSession returned
    xError,        \* the rejection reason
    archive,       \* the ZIP handed to the browser download
    hist,          \* observation only: what this run sent, received and stored
    runs,          \* observation only: outcome of every finished run
    \* ---- resolveDetectedCard ----
    rIn,           \* the arguments of one call
    rOut,          \* the results of the two copies
    \* ---- the pairing step ----
    sess,          \* session store: detectedCards, detectionAdjustments, files
    ps,            \* PairsStep component state
    savedPairs,    \* session.pairs as written by setPairs
    \* ---- a wrap() proxy, its worker and the detection step ----
    calls,         \* the promise of every call made through the proxy; observation of
                   \* what the worker did for it
    ep,            \* the two ends: listeners attached, calls running on the worker
    ds,            \* DetectSplitStep component state
    \* ---- the upload step ----
    us,            \* UploadStep component state and the decodes it awaits
    \* ---- a worker's OpenCV runtime ----
    cv,            \* ensureOpenCv: initPromise, the loads started, the callers
    \* ---- the router and the steps after pairing ----
    nav            \* the route on screen, session.naming, the export runs started

exportVars == <<xPairs, xNaming, xOpts, xEnv, dirFS, dirPermitted, pc, idx, wk,
                idCounter, pending, toWorker, toMain, cur, queue, zip, manifests,
                mIdx, completed, total, events, thrown, settled, xError, archive,
                hist, runs>>
resolveVars == <<rIn, rOut>>
pairVars == <<sess, ps, savedPairs>>
proxyVars == <<calls, ep, ds, us, cv, nav>>
vars == <<exportVars, resolveVars, pairVars, proxyVars>>

----------------------------------------------------------------------------
(* Strings as character sequences                                          *)

Undefined == <<"undefined">>

Digit == {"0", "1", "2", "3", "4", "5", "6", "7", "8", "9"}

DigitValue(c) ==
    CASE c = "0" -> 0 [] c = "1" -> 1 [] c = "2" -> 2 [] c = "3" -> 3 [] c = "4" -> 4
      [] c = "5" -> 5 [] c = "6" -> 6 [] c = "7" -> 7 [] c = "8" -> 8 [] c = "9" -> 9

DigitChar(d) ==
    CASE d = 0 -> "0" [] d = 1 -> "1" [] d = 2 -> "2" [] d = 3 -> "3" [] d = 4 -> "4"
      [] d = 5 -> "5" [] d = 6 -> "6" [] d = 7 -> "7" [] d = 8 -> "8" [] d = 9 -> "9"

RECURSIVE NumberToString(_)
NumberToString(n) ==
    IF n < 0 THEN <<"-">> \o NumberToString(0 - n)
    ELSE IF n < 10 THEN <<DigitChar(n)>>
    ELSE NumberToString(n \div 10) \o <<DigitChar(n % 10)>>

StartsWith(s, prefix) ==
    /\ Len(s) >= Len(prefix)
    /\ SubSeq(s, 1, Len(prefix)) = prefix

Slice(s, from) == SubSeq(s, from + 1, Len(s))

CardInfix == <<"-", "c", "a", "r", "d", "-">>
ManualInfix == <<"-", "m", "a", "n", "u", "a", "l", "-">>

NaN == [finite |-> FALSE, value |-> 0]

RECURSIVE SkipWhitespace(_)
SkipWhitespace(s) ==
    IF s # <<>> /\ Head(s) = " " THEN SkipWhitespace(Tail(s)) ELSE s

RECURSIVE DigitsValue(_, _)
DigitsValue(s, acc) ==
    IF s # <<>> /\ Head(s) \in Digit
    THEN DigitsValue(Tail(s), 10 * acc + DigitValue(Head(s)))
    ELSE acc

ParseInt10(str) ==
    LET s == SkipWhitespace(str)
        neg == s # <<>> /\ Head(s) = "-"
        body == IF s # <<>> /\ Head(s) \in {"-", "+"} THEN Tail(s) ELSE s
    IN IF body = <<>> \/ Head(body) \notin Digit THEN NaN
       ELSE [finite |-> TRUE,
             value |-> IF neg THEN 0 - DigitsValue(body, 0) ELSE DigitsValue(body, 0)]

----------------------------------------------------------------------------
(* Session data and resolveDetectedCard                                    *)

MaxPairs == 2

NullCard == [tag |-> "null", n |-> 0, quadLen |-> 0]
Card(tag, n, quadLen) == [tag |-> tag, n |-> n, quadLen |-> quadLen]

Falsy(s) == s = Undefined \/ s = <<>>

RECURSIVE FindManual(_, _)
FindManual(entries, manualId) ==
    IF entries = <<>> THEN NullCard
    ELSE IF Head(entries).id = manualId THEN Head(entries).card
    ELSE FindManual(Tail(entries), manualId)

\* An array read that counts from one.
ArrayAt_FromOne(cards, index) ==
    IF index >= 1 /\ index <= Len(cards) THEN cards[index] ELSE NullCard

ArrayAt(cards, index) ==
    IF index >= 0 /\ index < Len(cards) THEN cards[index + 1] ELSE NullCard

ResolveAuto(cards, suffix) ==
    LET index == ParseInt10(suffix)
    IN IF index.finite THEN ArrayAt(cards, index.value) ELSE NullCard

resolveDetectedCard(fileId, detectionId, detectedCards, adjustments) ==
    IF Falsy(fileId) \/ Falsy(detectionId) THEN NullCard
    ELSE LET autoPrefix == fileId \o CardInfix
             manualPrefix == fileId \o ManualInfix
         IN IF StartsWith(detectionId, autoPrefix)
            THEN LET cards == IF fileId \in DOMAIN detectedCards
                              THEN detectedCards[fileId] ELSE <<>>
                 IN ResolveAuto(cards, Slice(detectionId, Len(autoPrefix)))
            ELSE IF StartsWith(detectionId, manualPrefix)
            THEN LET manualId == Slice(detectionId, Len(manualPrefix))
                     manualEntries == IF fileId \in DOMAIN adjustments
                                      THEN adjustments[fileId].manual ELSE <<>>
                 IN FindManual(manualEntries, manualId)
            ELSE NullCard

\* The copy in the naming step (NameCardsStep.tsx), translated separately.
resolveDetectedCardNaming(fileId, detectionId, detectedCards, adjustments) ==
    IF Falsy(fileId) \/ Falsy(detectionId) THEN NullCard
    ELSE LET autoPrefix == fileId \o CardInfix
         IN IF StartsWith(detectionId, autoPrefix)
            THEN LET index == ParseInt10(Slice(detectionId, Len(autoPrefix)))
                     cards == IF fileId \in DOMAIN detectedCards
                              THEN detectedCards[fileId] ELSE <<>>
                 IN IF index.finite THEN ArrayAt(cards, index.value) ELSE NullCard
            ELSE LET manualPrefix == fileId \o ManualInfix
                 IN IF StartsWith(detectionId, manualPrefix)
                    THEN LET manualId == Slice(detectionId, Len(manualPrefix))
                             manualEntries == IF fileId \in DOMAIN adjustments
                                              THEN adjustments[fileId].manual ELSE <<>>
                         IN FindManual(manualEntries, manualId)
                    ELSE NullCard

----------------------------------------------------------------------------
(* The session handed to exportSession                                     *)

FileF == <<"f">>
FileG == <<"g">>
FileH == <<"h">>

\* workingImages: front and back photo are decoded, FileH is not.
XWorkingImages == {FileF, FileG}

XDetectedCards ==
    (FileF :> [i \in 1..MaxPairs |-> Card("f", i, 4)]) @@
    (FileG :> [i \in 1..MaxPairs |-> Card("g", i, 4)])

\* One manual front detection per pair position whose quad has 3 points.
XAdjustments ==
    (FileF :> [disabledAuto |-> <<>>,
               manual |-> [i \in 1..MaxPairs |->
                            [id |-> <<"q">> \o NumberToString(i),
                             card |-> Card("q", i, 3)]]]) @@
    (FileG :> [disabledAuto |-> <<>>, manual |-> <<>>])

PairKinds == {"front", "both", "backGone", "backNoImage", "frontGone", "noImage", "quad3"}

AutoId(fileId, index) == fileId \o CardInfix \o NumberToString(index)
ManualId(fileId, manualId) == fileId \o ManualInfix \o manualId

MkPair(i, kind) ==
    LET primaryFile == IF kind = "noImage" THEN FileH ELSE FileF
        primaryDet ==
            CASE kind = "frontGone" -> AutoId(FileF, i - 1 + MaxPairs)
              [] kind = "noImage" -> AutoId(FileH, 0)
              [] kind = "quad3" -> ManualId(FileF, <<"q">> \o NumberToString(i))
              [] OTHER -> AutoId(FileF, i - 1)
        secondaryFile ==
            CASE kind \in {"both", "backGone"} -> FileG
              [] kind = "backNoImage" -> FileH
              [] OTHER -> Undefined
        secondaryDet ==
            CASE kind = "both" -> AutoId(FileG, i - 1)
              [] kind = "backGone" -> AutoId(FileG, i - 1 + MaxPairs)
              [] kind = "backNoImage" -> AutoId(FileH, 0)
              [] OTHER -> Undefined
    IN [id |-> <<"p", "a", "i", "r", "-">> \o primaryDet,
        primaryFileId |-> primaryFile,
        primaryDetectionId |-> primaryDet,
        secondaryFileId |-> secondaryFile,
        secondaryDetectionId |-> secondaryDet]

FolderPlans == {"distinct", "shared", "unnamed"}

MkNaming(pairs, plan) ==
    IF plan = "unnamed" THEN <<>>
    ELSE [i \in 1..Len(pairs) |->
            [pairId |-> pairs[i].id,
             folderPath |-> IF plan = "shared" THEN <<"SetA", "Card">>
                            ELSE <<"SetA", "Card" \o ToString(i)>>]]

----------------------------------------------------------------------------
(* The export worker's reply (processSide / processPair)                   *)

QUADRANT_SUFFIXES == <<"TOP_LEFT", "TOP_RIGHT", "BOTTOM_LEFT", "BOTTOM_RIGHT">>

\* A side that adds the warped image whenever the flag is set.
processSide_NoQuadCheck(payload, extension, includeWarped) ==
    LET prefix == IF payload.side = "front" THEN "FRONT" ELSE "BACK"
        base == <<<<prefix, "LISTING", extension>>>> \o
                [i \in 1..4 |-> <<prefix, QUADRANT_SUFFIXES[i], extension>>]
    IN IF includeWarped THEN base \o <<<<prefix, "WARPED", extension>>>> ELSE base

processSide(payload, extension, includeWarped) ==
    LET prefix == IF payload.side = "front" THEN "FRONT" ELSE "BACK"
        base == <<<<prefix, "LISTING", extension>>>> \o
                [i \in 1..4 |-> <<prefix, QUADRANT_SUFFIXES[i], extension>>]
    IN IF payload.side = "front" /\ includeWarped /\ payload.quadLen = 4
       THEN base \o <<<<prefix, "WARPED", extension>>>>
       ELSE base

processPair(request) ==
    (IF request.hasFront
     THEN processSide(request.front, request.fileExtension, request.includeWarped)
     ELSE <<>>) \o
    (IF request.hasBack
     THEN processSide(request.back, request.fileExtension, FALSE)
     ELSE <<>>)

----------------------------------------------------------------------------
(* exportSession                                                           *)

NoError == [kind |-> "none", name |-> <<>>, pair |-> 0]
Err(kind, name, pair) == [kind |-> kind, name |-> name, pair |-> pair]

ManifestName == <<"MANIFEST", "json">>

NoPairIndex == 0 - 1

\* Variant: the back listing and its quadrants are not counted.
estimateFilesForPair_FrontOnly(pair, includeWarped) ==
    IF includeWarped THEN 6 ELSE 5

estimateFilesForPair(pair, includeWarped) ==
    (IF includeWarped THEN 6 ELSE 5) +
    (IF ~Falsy(pair.secondaryFileId) THEN 5 ELSE 0)

RECURSIVE SumFiles(_, _)
SumFiles(pairs, includeWarped) ==
    IF pairs = <<>> THEN 0
    ELSE estimateFilesForPair(Head(pairs), includeWarped) + SumFiles(Tail(pairs), includeWarped)

Max(a, b) == IF a >= b THEN a ELSE b

TotalSteps(pairs, opts) ==
    Max(SumFiles(pairs, opts.includeWarped) +
        (IF opts.includeManifests THEN Len(pairs) ELSE 0), 1)

\* namingMap.get(id) found nothing: namingEntry?.folderPath is then undefined.
NoNamingEntry == [pairId |-> Undefined, folderPath |-> <<>>]

\* new Map(naming.map(...)).get(id): the last entry with that pairId wins.
RECURSIVE NamingGet(_, _)
NamingGet(naming, pairId) ==
    IF naming = <<>> THEN NoNamingEntry
    ELSE IF naming[Len(naming)].pairId = pairId THEN naming[Len(naming)]
    ELSE NamingGet(SubSeq(naming, 1, Len(naming) - 1), pairId)

\* folderPath, held already split at '/' with empty segments dropped.
Segments(naming, pair, index) ==
    LET namingEntry == NamingGet(naming, pair.id)
    IN IF namingEntry.folderPath = <<>>
       THEN <<"pair-" \o ToString(index)>>
       ELSE namingEntry.folderPath

\* Variant: a 'writing' update is emitted before `completed` is raised.
Progress_BeforeCount(stage, message, done, pairIndex) ==
    [stage |-> stage, message |-> message,
     completed |-> IF stage = "writing" THEN done - 1 ELSE done, total |-> total,
     pairIndex |-> pairIndex]

\* An update passed to onProgress. Of the message only the file it names is kept
\* (<<>> when it names none).
Progress(stage, message, done, pairIndex) ==
    [stage |-> stage, message |-> message, completed |-> done, total |-> total,
     pairIndex |-> pairIndex]

NoCur == [segments |-> <<>>, frontCard |-> NullCard, backCard |-> NullCard,
          hasBack |-> FALSE, files |-> <<>>]

NoHist == [sent |-> <<>>, responded |-> {}, results |-> <<>>, stored |-> <<>>,
           written |-> <<>>]

EmptyMap == <<>>

Put(map, key, value) == [k \in (DOMAIN map) \cup {key} |-> IF k = key THEN value ELSE map[k]]

Running == pc \notin {"idle", "done"}

\* The run's outcome, recorded when the promise settles.
Outcome(state, output) ==
    [directory |-> xOpts.directory, settled |-> state, output |-> output]

sessionVars == <<xPairs, xNaming, xEnv>>
wrapVars == <<idCounter, pending, toWorker, toMain>>

\* exportSession is called: lines 412-455.  A later call starts from fresh locals.
StartExport(directory) ==
    /\ \/ pc = "idle"
       \/ pc = "done" /\ Len(runs) < xEnv.runLimit
    /\ xOpts' = [xOpts EXCEPT !.directory = directory]
    /\ IF Len(xPairs) = 0
       THEN /\ settled' = "rejected"
            /\ xError' = Err("noPairs", <<>>, 0)
            /\ pc' = "done"
            /\ runs' = Append(runs, [directory |-> directory, settled |-> "rejected",
                                     output |-> EmptyMap])
            /\ wk' = [created |-> 0, released |-> 0, terminated |-> 0]
            /\ events' = <<>>
            /\ total' = 0
       ELSE /\ settled' = "pending"
            /\ xError' = NoError
            /\ wk' = [created |-> 1, released |-> 0, terminated |-> 0]
            /\ total' = TotalSteps(xPairs, xOpts)
            /\ events' = <<[stage |-> "initializing", message |-> <<>>, completed |-> 0,
                            total |-> TotalSteps(xPairs, xOpts), pairIndex |-> NoPairIndex]>>
            /\ pc' = "loop"
            /\ UNCHANGED runs
    /\ zip' = EmptyMap
    /\ idx' = 1
    /\ completed' = 0
    /\ idCounter' = 0
    /\ pending' = {}
    /\ toWorker' = <<>>
    /\ toMain' = <<>>
    /\ cur' = NoCur
    /\ queue' = <<>>
    /\ manifests' = <<>>
    /\ mIdx' = 1
    /\ thrown' = NoError
    /\ hist' = NoHist
    /\ UNCHANGED <<sessionVars, dirFS, dirPermitted, archive>>
    /\ UNCHANGED <<resolveVars, pairVars, proxyVars>>

\* Loop head and the body up to `await worker.processPair(request)`: lines 458-499.
SendRequest ==
    /\ pc = "loop"
    /\ idx <= Len(xPairs)
    /\ LET pair == xPairs[idx]
           segments == Segments(xNaming, pair, idx)
           frontCard == resolveDetectedCard(pair.primaryFileId, pair.primaryDetectionId,
                                            XDetectedCards, XAdjustments)
           hasBackImage == ~Falsy(pair.secondaryFileId) /\ pair.secondaryFileId \in XWorkingImages
           backCard == IF ~Falsy(pair.secondaryFileId)
                       THEN resolveDetectedCard(pair.secondaryFileId, pair.secondaryDetectionId,
                                                XDetectedCards, XAdjustments)
                       ELSE NullCard
           hasBack == hasBackImage /\ backCard # NullCard
           request == [fileExtension |-> "jpg",
                       includeWarped |-> xOpts.includeWarped,
                       hasFront |-> TRUE,
                       front |-> [side |-> "front", quadLen |-> frontCard.quadLen],
                       hasBack |-> hasBack,
                       back |-> [side |-> "back", quadLen |-> backCard.quadLen]]
       IN IF pair.primaryFileId \notin XWorkingImages
          THEN /\ thrown' = Err("missingWorkingImage", pair.primaryFileId, idx)
               /\ pc' = "finally"
               /\ UNCHANGED <<wrapVars, cur, events, hist>>
          ELSE IF frontCard = NullCard
          THEN /\ thrown' = Err("unresolvedFront", pair.id, idx)
               /\ pc' = "finally"
               /\ UNCHANGED <<wrapVars, cur, events, hist>>
          ELSE /\ cur' = [segments |-> segments, frontCard |-> frontCard,
                          backCard |-> backCard, hasBack |-> hasBack, files |-> <<>>]
               /\ events' = Append(events, Progress("processing", <<>>, completed, idx - 1))
               /\ idCounter' = idCounter + 1
               /\ pending' = pending \cup {idCounter}
               /\ toWorker' = Append(toWorker, [type |-> "call", id |-> idCounter,
                                                method |-> "processPair", request |-> request,
                                                pairIndex |-> idx - 1])
               /\ hist' = [hist EXCEPT !.sent = Append(@, idx - 1)]
               /\ pc' = "awaiting"
               /\ UNCHANGED <<toMain, thrown>>
    /\ UNCHANGED <<sessionVars, xOpts, dirFS, dirPermitted, idx, wk, queue, zip, manifests,
                   mIdx, completed, total, settled, xError, archive, runs>>
    /\ UNCHANGED <<resolveVars, pairVars, proxyVars>>

\* The loop condition fails: control leaves the try block normally.
LoopExit ==
    /\ pc = "loop"
    /\ idx > Len(xPairs)
    /\ pc' = "finally"
    /\ UNCHANGED <<sessionVars, xOpts, dirFS, dirPermitted, idx, wk, wrapVars, cur, queue,
                   zip, manifests, mIdx, completed, total, events, thrown, settled, xError,
                   archive, hist, runs>>
    /\ UNCHANGED <<resolveVars, pairVars, proxyVars>>

\* expose(): the worker handles one 'call' message and posts its reply.
WorkerHandleCall ==
    /\ toWorker # <<>>
    /\ Head(toWorker).type = "call"
    /\ wk.terminated = 0
    /\ \E ok \in (IF xEnv.faults THEN BOOLEAN ELSE {TRUE}) :
         LET msg == Head(toWorker)
         IN toMain' = Append(toMain,
                IF ok
                THEN [type |-> "resolve", id |-> msg.id, images |-> processPair(msg.request),
                      pairIndex |-> msg.pairIndex]
                ELSE [type |-> "reject", id |-> msg.id, images |-> <<>>,
                      pairIndex |-> msg.pairIndex])
    /\ toWorker' = Tail(toWorker)
    /\ UNCHANGED <<sessionVars, xOpts, dirFS, dirPermitted, pc, idx, wk, idCounter, pending,
                   cur, queue, zip, manifests, mIdx, completed, total, events, thrown,
                   settled, xError, archive, hist, runs>>
    /\ UNCHANGED <<resolveVars, pairVars, proxyVars>>

\* wrap(): handleMessage settles the pending call; exportSession resumes after the await
\* and, in directory mode, opens the target folder (lines 499-502).
ReceiveResponse ==
    /\ pc = "awaiting"
    /\ toMain # <<>>
    /\ Head(toMain).id \in pending
    /\ LET msg == Head(toMain)
       IN /\ toMain' = Tail(toMain)
          /\ pending' = pending \ {msg.id}
          /\ hist' = [hist EXCEPT !.responded = @ \cup {msg.pairIndex},
                                   !.results = IF msg.type = "resolve"
                                               THEN Put(@, msg.pairIndex, msg.images)
                                               ELSE @]
          /\ IF msg.type = "reject"
             THEN /\ thrown' = Err("worker", <<>>, idx)
                  /\ pc' = "finally"
                  /\ UNCHANGED <<cur, queue>>
             ELSE IF xOpts.directory /\ ~dirPermitted
             THEN /\ thrown' = Err("permission", <<>>, idx)
                  /\ pc' = "finally"
                  /\ UNCHANGED <<cur, queue>>
             ELSE /\ cur' = [cur EXCEPT !.files = msg.images]
                  /\ queue' = msg.images
                  /\ pc' = "writing"
                  /\ UNCHANGED thrown
    /\ UNCHANGED <<sessionVars, xOpts, dirFS, dirPermitted, idx, wk, idCounter, toWorker,
                   zip, manifests, mIdx, completed, total, events, settled, xError,
                   archive, runs>>
    /\ UNCHANGED <<resolveVars, pairVars, proxyVars>>

----------------------------------------------------------------------------
\* A check that never reports a collision: getFileHandle(name, {create: true}) then
\* opens the existing file and the write replaces it.
hasNameCollision_Never(dir, path) == FALSE

\* hasNameCollision: getFileHandle(name, {create: false}) finds the file.
hasNameCollision(dir, path) == path \in DOMAIN dir

Content(pairIndex, name) == [pair |-> pairIndex, name |-> name]

Store(h, pairIndex, path, name, content) ==
    [h EXCEPT !.stored = Put(@, pairIndex,
                             (IF pairIndex \in DOMAIN @ THEN @[pairIndex] ELSE {}) \cup {name}),
              !.written = Put(@, path, content)]

\* One iteration of `for (const image of result.images)`: lines 503-507 and 513-517.
WriteImage ==
    /\ pc = "writing"
    /\ queue # <<>>
    /\ LET name == Head(queue)
           path == <<cur.segments, name>>
           content == Content(idx - 1, name)
       IN IF xOpts.directory /\ ~dirPermitted
          THEN /\ thrown' = Err("permission", name, idx)
               /\ pc' = "finally"
               /\ UNCHANGED <<dirFS, zip, queue, completed, events, hist>>
          ELSE IF xOpts.directory /\ hasNameCollision(dirFS, path)
          THEN /\ thrown' = Err("collision", name, idx)
               /\ pc' = "finally"
               /\ UNCHANGED <<dirFS, zip, queue, completed, events, hist>>
          ELSE /\ IF xOpts.directory
                  THEN dirFS' = Put(dirFS, path, content) /\ UNCHANGED zip
                  ELSE zip' = Put(zip, path, content) /\ UNCHANGED dirFS
               /\ queue' = Tail(queue)
               /\ completed' = completed + 1
               /\ events' = Append(events, Progress("writing", name, completed + 1, idx - 1))
               /\ hist' = Store(hist, idx - 1, path, name, content)
               /\ UNCHANGED <<pc, thrown>>
    /\ UNCHANGED <<sessionVars, xOpts, dirPermitted, idx, wk, wrapVars, cur, manifests,
                   mIdx, total, settled, xError, archive, runs>>
    /\ UNCHANGED <<resolveVars, pairVars, proxyVars>>

\* A loop body that does not await its writes.
WritesFinished_NotAwaited == TRUE

\* Every awaited write of the iteration has finished.
WritesFinished == queue = <<>>

ManifestEntry(pair, index) ==
    [segments |-> cur.segments,
     pairIndex |-> index - 1,
     entry |-> [pairId |-> pair.id,
                folderPath |-> cur.segments,
                files |-> cur.files,
                front |-> cur.frontCard,
                back |-> IF cur.hasBack THEN cur.backCard ELSE NullCard]]

\* End of the loop body: the manifest is queued (lines 520-549) and index advances.
PairDone ==
    /\ pc = "writing"
    /\ WritesFinished
    /\ manifests' = IF xOpts.includeManifests
                    THEN Append(manifests, ManifestEntry(xPairs[idx], idx))
                    ELSE manifests
    /\ idx' = idx + 1
    /\ pc' = "loop"
    /\ UNCHANGED <<sessionVars, xOpts, dirFS, dirPermitted, wk, wrapVars, cur, queue, zip,
                   mIdx, completed, total, events, thrown, settled, xError, archive,
                   hist, runs>>
    /\ UNCHANGED <<resolveVars, pairVars, proxyVars>>

\* Cleanup placed after the loop instead of in a finally block: an error skips it.
Finally_SkippedOnError ==
    /\ pc = "finally"
    /\ IF thrown # NoError
       THEN /\ settled' = "rejected"
            /\ xError' = thrown
            /\ pc' = "done"
            /\ runs' = Append(runs, Outcome("rejected", hist.written))
            /\ UNCHANGED <<wk, pending, toWorker, toMain>>
       ELSE /\ wk' = [wk EXCEPT !.released = @ + 1, !.terminated = @ + 1]
            /\ pending' = {}
            /\ toWorker' = <<>>
            /\ toMain' = <<>>
            /\ pc' = "manifests"
            /\ UNCHANGED <<settled, xError, runs>>
    /\ UNCHANGED <<sessionVars, xOpts, dirFS, dirPermitted, idx, idCounter, cur, queue, zip,
                   manifests, mIdx, completed, total, events, thrown, archive, hist>>
    /\ UNCHANGED <<resolveVars, pairVars, proxyVars>>

\* The finally block (lines 551-556): the proxy is released (its listener removed, a
\* 'release' message posted, pending calls rejected) and the worker terminated, which
\* discards what it has not handled.  A pending error then rejects the promise.
Finally ==
    /\ pc = "finally"
    /\ wk' = [wk EXCEPT !.released = @ + 1, !.terminated = @ + 1]
    /\ pending' = {}
    /\ toWorker' = <<>>
    /\ toMain' = <<>>
    /\ IF thrown # NoError
       THEN /\ settled' = "rejected"
            /\ xError' = thrown
            /\ pc' = "done"
            /\ runs' = Append(runs, Outcome("rejected", hist.written))
       ELSE /\ pc' = "manifests"
            /\ UNCHANGED <<settled, xError, runs>>
    /\ UNCHANGED <<sessionVars, xOpts, dirFS, dirPermitted, idx, idCounter, cur, queue, zip,
                   manifests, mIdx, completed, total, events, thrown, archive, hist>>
    /\ UNCHANGED <<resolveVars, pairVars, proxyVars>>

\* One iteration of the manifest loop: lines 558-584.  An error here is thrown
\* straight out of exportSession.
WriteManifest ==
    /\ pc = "manifests"
    /\ xOpts.includeManifests
    /\ mIdx <= Len(manifests)
    /\ LET manifest == manifests[mIdx]
           path == <<manifest.segments, ManifestName>>
           failure ==
               IF xOpts.directory /\ ~dirPermitted
               THEN Err("permission", ManifestName, manifest.pairIndex + 1)
               ELSE IF xOpts.directory /\ hasNameCollision(dirFS, path)
               THEN Err("collision", ManifestName, manifest.pairIndex + 1)
               ELSE NoError
       IN IF failure # NoError
          THEN /\ settled' = "rejected"
               /\ xError' = failure
               /\ pc' = "done"
               /\ runs' = Append(runs, Outcome("rejected", hist.written))
               /\ UNCHANGED <<dirFS, zip, mIdx, completed, events, hist>>
          ELSE /\ IF xOpts.directory
                  THEN dirFS' = Put(dirFS, path, manifest.entry) /\ UNCHANGED zip
                  ELSE zip' = Put(zip, path, manifest.entry) /\ UNCHANGED dirFS
               /\ mIdx' = mIdx + 1
               /\ completed' = completed + 1
               /\ events' = Append(events, Progress("writing", ManifestName, completed + 1,
                                                    manifest.pairIndex))
               /\ hist' = [hist EXCEPT !.written = Put(@, path, manifest.entry)]
               /\ UNCHANGED <<pc, settled, xError, runs>>
    /\ UNCHANGED <<sessionVars, xOpts, dirPermitted, idx, wk, wrapVars, cur, queue,
                   manifests, total, thrown, archive>>
    /\ UNCHANGED <<resolveVars, pairVars, proxyVars>>

\* Lines 586-590: in ZIP mode the archive is generated and handed to the browser.
ZipDownload ==
    /\ pc = "manifests"
    /\ ~xOpts.includeManifests \/ mIdx > Len(manifests)
    /\ ~xOpts.directory
    /\ events' = Append(events, Progress("finalizing", <<>>, completed, NoPairIndex))
    /\ archive' = zip
    /\ pc' = "complete"
    /\ UNCHANGED <<sessionVars, xOpts, dirFS, dirPermitted, idx, wk, wrapVars, cur, queue,
                   zip, manifests, mIdx, completed, total, thrown, settled, xError,
                   hist, runs>>
    /\ UNCHANGED <<resolveVars, pairVars, proxyVars>>

\* Without line 592 the last event reports the images actually written.
FinalCompleted_NotRaised(done, all) == done

\* Line 592.
FinalCompleted(done, all) == Max(done, all)

\* Lines 592-593: the last progress event; the promise resolves.
Complete ==
    /\ \/ pc = "complete"
       \/ /\ pc = "manifests"
          /\ ~xOpts.includeManifests \/ mIdx > Len(manifests)
          /\ xOpts.directory
    /\ completed' = FinalCompleted(completed, total)
    /\ events' = Append(events, Progress("finalizing", <<>>,
                                         FinalCompleted(completed, total), NoPairIndex))
    /\ settled' = "resolved"
    /\ pc' = "done"
    /\ runs' = Append(runs, Outcome("resolved", IF xOpts.directory THEN hist.written ELSE archive))
    /\ UNCHANGED <<sessionVars, xOpts, dirFS, dirPermitted, idx, wk, wrapVars, cur, queue,
                   zip, manifests, mIdx, total, thrown, xError, archive, hist>>
    /\ UNCHANGED <<resolveVars, pairVars, proxyVars>>

\* The user or the browser withdraws access to the selected folder during a run.
RevokePermission ==
    /\ Running
    /\ xEnv.faults
    /\ xOpts.directory
    /\ dirPermitted
    /\ dirPermitted' = FALSE
    /\ UNCHANGED <<sessionVars, xOpts, dirFS, pc, idx, wk, wrapVars, cur, queue, zip,
                   manifests, mIdx, completed, total, events, thrown, settled, xError,
                   archive, hist, runs>>
    /\ UNCHANGED <<resolveVars, pairVars, proxyVars>>

----------------------------------------------------------------------------
(* Specifications of the export orchestrator                               *)

OldContent == [pair |-> NoPairIndex, name |-> <<"old">>]

\* What the selected folder may hold before the run: nothing, an image or a manifest
\* left by an earlier export into the first pair's folder.
PreExisting(pairs, naming) ==
    IF pairs = <<>> THEN {EmptyMap}
    ELSE LET segments == Segments(naming, pairs[1], 1)
         IN {EmptyMap,
             Put(EmptyMap, <<segments, <<"FRONT", "TOP_LEFT", "jpg">>>>, OldContent),
             Put(EmptyMap, <<segments, ManifestName>>, OldContent)}

IdleResolve ==
    /\ rIn = [fileId |-> Undefined, detectionId |-> Undefined, cards |-> <<>>, manual |-> <<>>]
    /\ rOut = [called |-> FALSE, export |-> NullCard, naming |-> NullCard]

Null == <<"null">>

Infinity == [finite |-> FALSE, value |-> 0]

\* PairsStep before it is mounted: the useState and useRef initial values.
Unmounted ==
    [mounted |-> FALSE, reverseBacks |-> FALSE, previousCounts |-> [front |-> 0, back |-> 0],
     assignments |-> EmptyMap, skippedBacks |-> <<>>, lastOp |-> "none"]

IdlePairs ==
    /\ sess = [files |-> <<>>, detectedCards |-> EmptyMap, adjustments |-> EmptyMap]
    /\ ps = Unmounted
    /\ savedPairs = <<>>

InitSession ==
    \E n \in 0..MaxPairs :
      \E kinds \in [1..n -> PairKinds] :
        \E plan \in FolderPlans :
          /\ xPairs = [i \in 1..n |-> MkPair(i, kinds[i])]
          /\ xNaming = MkNaming([i \in 1..n |-> MkPair(i, kinds[i])], plan)

InitRun ==
    /\ xOpts \in [directory : {FALSE}, includeManifests : BOOLEAN, includeWarped : BOOLEAN]
    /\ dirPermitted = TRUE
    /\ pc = "idle"
    /\ idx = 1
    /\ wk = [created |-> 0, released |-> 0, terminated |-> 0]
    /\ idCounter = 0
    /\ pending = {}
    /\ toWorker = <<>>
    /\ toMain = <<>>
    /\ cur = NoCur
    /\ queue = <<>>
    /\ zip = EmptyMap
    /\ manifests = <<>>
    /\ mIdx = 1
    /\ completed = 0
    /\ total = 0
    /\ events = <<>>
    /\ thrown = NoError
    /\ settled = "pending"
    /\ xError = NoError
    /\ archive = EmptyMap
    /\ hist = NoHist
    /\ runs = <<>>

\* No export is running.
\* No proxy, no detection step.
NoStep ==
    [mounted |-> FALSE, workerReady |-> FALSE, hasFront |-> FALSE, hasBack |-> FALSE,
     frontStatus |-> "idle", backStatus |-> "idle", frontDetections |-> 0,
     frontDue |-> FALSE, backDue |-> FALSE, frontTask |-> 0, backTask |-> 0,
     tasks |-> <<>>]

NoEnds == [listening |-> FALSE, exposed |-> FALSE, running |-> {}, strays |-> 0]

\* A worker that has not asked for OpenCV yet: initPromise is null (0), self.cv unset.
NoRuntime == [initPromise |-> 0, hasCv |-> FALSE, loads |-> <<>>, got |-> <<>>, seen |-> <<>>]

\* UploadStep before it is mounted: useState's initial slots, no decode awaited.
\* `latest` observes the token and file of the last handleFile call of each slot.
\* `error` names the file whose decode error the slot shows (<<>> when none).
EmptySlot == [status |-> "empty", token |-> 0, file |-> <<>>, error |-> <<>>]

NoUpload ==
    [mounted |-> FALSE, instance |-> 0,
     slots |-> [primary |-> EmptySlot, secondary |-> EmptySlot],
     tokens |-> 0, decoding |-> {},
     latest |-> [primary |-> [token |-> 0, file |-> <<>>],
                 secondary |-> [token |-> 0, file |-> <<>>]]]

\* The router before any navigation: the upload route, no naming records, no export.
NoRouter == [route |-> "files", naming |-> EmptyMap, exports |-> <<>>]

IdleProxy ==
    /\ calls = <<>>
    /\ ep = NoEnds
    /\ ds = NoStep
    /\ us = NoUpload
    /\ cv = NoRuntime
    /\ nav = NoRouter

IdleExport ==
    /\ xPairs = <<>>
    /\ xNaming = <<>>
    /\ xEnv = [faults |-> FALSE, runLimit |-> 0]
    /\ dirFS = EmptyMap
    /\ InitRun
    /\ xOpts.includeManifests
    /\ xOpts.includeWarped

\* One export run, with a failing environment and a folder that may already hold files.
InitExport ==
    /\ InitSession
    /\ InitRun
    /\ xEnv = [faults |-> TRUE, runLimit |-> 1]
    /\ dirFS \in PreExisting(xPairs, xNaming)
    /\ IdleResolve
    /\ IdlePairs
    /\ IdleProxy

NextExport ==
    \/ \E directory \in BOOLEAN : StartExport(directory)
    \/ SendRequest
    \/ LoopExit
    \/ WorkerHandleCall
    \/ ReceiveResponse
    \/ WriteImage
    \/ PairDone
    \/ Finally
    \/ WriteManifest
    \/ ZipDownload
    \/ Complete
    \/ RevokePermission

SpecExport ==
    InitExport /\ [][NextExport]_vars

----------------------------------------------------------------------------
(* Claims about the export orchestrator                                    *)

Range(seq) == {seq[i] : i \in 1..Len(seq)}

Settled == settled \in {"resolved", "rejected"}

\* C1: pairs are processed strictly sequentially in pair-list order.  At most one
\* processPair call is outstanding; requests are sent in list order; and whenever the
\* request for a pair has been sent, every earlier pair has been answered and every
\* image of its answer has been written to the folder or added to the archive.
C1_Sequential ==
    /\ Cardinality(pending) <= 1
    /\ Len(toWorker) + Len(toMain) <= 1
    /\ hist.sent = [k \in 1..Len(hist.sent) |-> k - 1]
    /\ \A k \in 1..Len(hist.sent) :
         \A j \in 0..(k - 2) :
           /\ j \in hist.responded
           /\ j \in DOMAIN hist.results
           /\ j \in DOMAIN hist.stored
           /\ Range(hist.results[j]) \subseteq hist.stored[j]

\* The second pair's request is outstanding after the first pair was fully stored.
C1_Witness ==
    /\ Len(hist.sent) = 2
    /\ pending # {}
    /\ 0 \in DOMAIN hist.stored
    /\ Cardinality(hist.stored[0]) >= 5

\* C2: over the progress events of a run, completed never decreases and never exceeds
\* total, and the last event of a successful run has completed = total, also when an
\* image counted in the total was never produced.
C2_Progress ==
    /\ \A i \in 1..Len(events) :
         /\ events[i].completed <= events[i].total
         /\ i > 1 => events[i - 1].completed <= events[i].completed
    /\ settled = "resolved" =>
         /\ events # <<>>
         /\ events[Len(events)].completed = events[Len(events)].total

\* A successful run whose written files fall short of the estimated total.
C2_Witness ==
    /\ settled = "resolved"
    /\ Len(events) >= 2
    /\ events[Len(events) - 1].completed < events[Len(events)].total
    /\ events[Len(events)].completed = total

HasTarget ==
    \/ pc = "writing" /\ queue # <<>>
    \/ pc = "manifests" /\ xOpts.includeManifests /\ mIdx <= Len(manifests)

TargetName == IF pc = "writing" THEN Head(queue) ELSE ManifestName

TargetPath ==
    IF pc = "writing" THEN <<cur.segments, Head(queue)>>
    ELSE <<manifests[mIdx].segments, ManifestName>>

Failure == IF thrown # NoError THEN thrown ELSE xError

\* C4: in directory mode a write whose target name already exists fails with a
\* collision error naming the file; no existing file is ever replaced or removed, and
\* once the run has failed no further file is written.
C4_Collision ==
    [][ /\ \A p \in DOMAIN dirFS : p \in DOMAIN dirFS' /\ dirFS'[p] = dirFS[p]
        /\ ( /\ xOpts.directory
             /\ dirPermitted
             /\ dirPermitted'
             /\ HasTarget
             /\ TargetPath \in DOMAIN dirFS )
           => ( /\ Failure'.kind = "collision"
                /\ Failure'.name = TargetName
                /\ dirFS' = dirFS )
        /\ Failure.kind = "collision"
           => ( /\ dirFS' = dirFS
                /\ Failure' = Failure
                /\ pc' # pc => settled' = "rejected" /\ xError' = Failure )
      ]_vars

\* A directory run stopped by a collision, with the files it wrote before still there.
C4_Witness ==
    /\ settled = "rejected"
    /\ xError.kind = "collision"
    /\ hist.written # EmptyMap
    /\ \A p \in DOMAIN hist.written : p \in DOMAIN dirFS /\ dirFS[p] = hist.written[p]
    /\ \E p \in DOMAIN dirFS : dirFS[p] = OldContent

FrontResolves(pair) ==
    /\ pair.primaryFileId \in XWorkingImages
    /\ resolveDetectedCard(pair.primaryFileId, pair.primaryDetectionId,
                           XDetectedCards, XAdjustments) # NullCard

\* C6 as claimed: a pair whose front detection or front working image does not resolve
\* aborts only itself; every later pair that resolves is still processed.
C6_OnlyAffectedPairAborted ==
    (Settled /\ xError.kind \in {"none", "unresolvedFront", "missingWorkingImage"}) =>
      \A i \in 1..Len(xPairs) : \A j \in 1..Len(xPairs) :
        (i < j /\ ~FrontResolves(xPairs[i]) /\ FrontResolves(xPairs[j]))
          => (j - 1) \in Range(hist.sent)

----------------------------------------------------------------------------
(* Directory and ZIP exports of one session                                *)

\* Pairs whose front side resolves, so that a run without faults reaches its writes.
ParityKinds == {"front", "both", "backGone", "quad3"}

\* A session exported twice with the same options into an empty folder and into an
\* archive, in either order, in an environment that does not fail.
InitParity ==
    /\ \E n \in 1..MaxPairs :
         \E kinds \in [1..n -> ParityKinds] :
           \E plan \in FolderPlans :
             /\ xPairs = [i \in 1..n |-> MkPair(i, kinds[i])]
             /\ xNaming = MkNaming([i \in 1..n |-> MkPair(i, kinds[i])], plan)
    /\ InitRun
    /\ xEnv = [faults |-> FALSE, runLimit |-> 2]
    /\ dirFS = EmptyMap
    /\ IdleResolve
    /\ IdlePairs
    /\ IdleProxy

NextParity ==
    \/ \E directory \in BOOLEAN : StartExport(directory)
    \/ SendRequest
    \/ LoopExit
    \/ WorkerHandleCall
    \/ ReceiveResponse
    \/ WriteImage
    \/ PairDone
    \/ Finally
    \/ WriteManifest
    \/ ZipDownload
    \/ Complete

SpecParity ==
    InitParity /\ [][NextParity]_vars

\* C5 as claimed: the directory export into an empty folder and the ZIP export of the
\* same session and options both succeed or both fail, and when they succeed they hold
\* the same relative paths and the same MANIFEST.json content at each path.
C5_DirectoryZipParity ==
    \A a \in 1..Len(runs) : \A b \in 1..Len(runs) :
      ( /\ runs[a].directory
        /\ \A c \in 1..(a - 1) : ~runs[c].directory
        /\ ~runs[b].directory
        /\ runs[a].settled = "resolved" \/ runs[b].settled = "resolved" )
      => /\ runs[a].settled = "resolved"
         /\ runs[b].settled = "resolved"
         /\ DOMAIN runs[a].output = DOMAIN runs[b].output
         /\ \A p \in DOMAIN runs[a].output :
              p[2] = ManifestName => runs[a].output[p] = runs[b].output[p]

----------------------------------------------------------------------------
(* resolveDetectedCard on arbitrary references                             *)

MaxSuffixLen == 2
MaxCards == 2

SuffixChars == {"0", "1", "2", "x", "-", " ", "+"}

RECURSIVE StringsUpTo(_, _)
StringsUpTo(chars, n) ==
    IF n = 0 THEN {<<>>}
    ELSE LET shorter == StringsUpTo(chars, n - 1)
         IN shorter \cup {<<c>> \o t : c \in chars, t \in {u \in shorter : Len(u) = n - 1}}

\* References built like the ids of createAdjustedCards, and malformed variants.
DetectionIds ==
    {Undefined, <<>>} \cup
    {prefix \o infix \o suffix :
       prefix \in {<<>>, FileF, FileG},
       infix \in {CardInfix, ManualInfix, <<"-">>},
       suffix \in StringsUpTo(SuffixChars, MaxSuffixLen)}

CardLists == {[i \in 1..n |-> Card("f", i, 4)] : n \in 0..MaxCards}

ManualLists ==
    {<<>>,
     <<[id |-> <<"x">>, card |-> Card("m", 1, 4)]>>,
     <<[id |-> <<"1">>, card |-> Card("m", 1, 4)],
       [id |-> <<"1">>, card |-> Card("m", 2, 4)],
       [id |-> <<"-", "1">>, card |-> Card("m", 3, 4)]>>}

InitResolve ==
    /\ \E fileId \in {Undefined, <<>>, FileF, FileG} :
         \E detectionId \in DetectionIds :
           \E cards \in {EmptyMap} \cup {FileF :> list : list \in CardLists} :
             \E manual \in {EmptyMap} \cup
                           {FileF :> [disabledAuto |-> <<>>, manual |-> list] :
                              list \in ManualLists} :
               rIn = [fileId |-> fileId, detectionId |-> detectionId,
                      cards |-> cards, manual |-> manual]
    /\ rOut = [called |-> FALSE, export |-> NullCard, naming |-> NullCard]
    /\ IdleExport
    /\ IdlePairs
    /\ IdleProxy

\* Both copies are applied to the same reference and session data.
ResolveCall ==
    /\ ~rOut.called
    /\ rOut' = [called |-> TRUE,
                export |-> resolveDetectedCard(rIn.fileId, rIn.detectionId,
                                               rIn.cards, rIn.manual),
                naming |-> resolveDetectedCardNaming(rIn.fileId, rIn.detectionId,
                                                     rIn.cards, rIn.manual)]
    /\ UNCHANGED rIn
    /\ UNCHANGED <<exportVars, pairVars, proxyVars>>

NextResolve == ResolveCall

SpecResolve ==
    InitResolve /\ [][NextResolve]_vars

\* A decimal index: one or more digits.
IsIndex(s) == s # <<>> /\ \A i \in 1..Len(s) : s[i] \in Digit

\* The result the id shapes call for.
ExpectedCard(fileId, detectionId, detectedCards, adjustments) ==
    IF Falsy(fileId) \/ Falsy(detectionId) THEN NullCard
    ELSE IF /\ StartsWith(detectionId, fileId \o CardInfix)
            /\ IsIndex(Slice(detectionId, Len(fileId \o CardInfix)))
    THEN LET index == DigitsValue(Slice(detectionId, Len(fileId \o CardInfix)), 0)
         IN IF fileId \in DOMAIN detectedCards /\ index < Len(detectedCards[fileId])
            THEN detectedCards[fileId][index + 1]
            ELSE NullCard
    ELSE IF StartsWith(detectionId, fileId \o ManualInfix)
    THEN LET manualId == Slice(detectionId, Len(fileId \o ManualInfix))
             entries == IF fileId \in DOMAIN adjustments
                        THEN adjustments[fileId].manual ELSE <<>>
             hits == {i \in 1..Len(entries) : entries[i].id = manualId}
         IN IF hits = {} THEN NullCard
            ELSE entries[CHOOSE i \in hits : \A j \in hits : i <= j].card
    ELSE NullCard

\* C7 as claimed: a `{fileId}-card-{index}` id resolves to detectedCards[fileId][index]
\* or null, a `{fileId}-manual-{manualId}` id to the card of the manual entry with that
\* id or null, every other id shape and a missing fileId or detectionId to null, and
\* the export copy and the naming copy return the same result.
C7_ResolveShapes ==
    rOut.called =>
      /\ rOut.export = ExpectedCard(rIn.fileId, rIn.detectionId, rIn.cards, rIn.manual)
      /\ rOut.naming = rOut.export

\* The part of C7 about the two copies alone.
C7_CopiesAgree == rOut.called => rOut.naming = rOut.export

----------------------------------------------------------------------------
(* The pairing step: adjusted cards and distances                          *)

MaxDetections == 3

\* Variant: the first element moves to the end, the others keep their order.
Reverse_Rotated(seq) == IF seq = <<>> THEN <<>> ELSE Tail(seq) \o <<Head(seq)>>

Reverse(seq) == [i \in 1..Len(seq) |-> seq[Len(seq) + 1 - i]]

\* Variant: the entries are left in the order they were pushed.
SortByX_AsPushed(entries) == entries

\* Array.prototype.sort with the comparator a.x - b.x: stable, ascending in x.
RECURSIVE InsertByX(_, _)
InsertByX(sorted, entry) ==
    IF sorted = <<>> THEN <<entry>>
    ELSE IF entry.card.centerNorm[1] < Head(sorted).card.centerNorm[1]
    THEN <<entry>> \o sorted
    ELSE <<Head(sorted)>> \o InsertByX(Tail(sorted), entry)

RECURSIVE SortByX(_)
SortByX(entries) ==
    IF entries = <<>> THEN <<>>
    ELSE InsertByX(SortByX(SubSeq(entries, 1, Len(entries) - 1)), entries[Len(entries)])

\* cards.forEach of createAdjustedCards: the enabled automatic detections from position
\* `index` (0-based) on.
RECURSIVE AutoEntries(_, _, _, _)
AutoEntries(fileId, cards, disabled, index) ==
    IF index >= Len(cards) THEN <<>>
    ELSE (IF index \in disabled THEN <<>>
          ELSE <<[id |-> fileId \o CardInfix \o NumberToString(index),
                  card |-> cards[index + 1], order |-> 0, source |-> "auto"]>>)
         \o AutoEntries(fileId, cards, disabled, index + 1)

createAdjustedCards(fileId, allDetected, adjustments) ==
    IF Falsy(fileId) THEN <<>>
    ELSE LET cards == IF fileId \in DOMAIN allDetected THEN allDetected[fileId] ELSE <<>>
             disabled == IF fileId \in DOMAIN adjustments
                         THEN Range(adjustments[fileId].disabledAuto) ELSE {}
             manual == IF fileId \in DOMAIN adjustments
                       THEN adjustments[fileId].manual ELSE <<>>
             entries == AutoEntries(fileId, cards, disabled, 0) \o
                        [i \in 1..Len(manual) |->
                           [id |-> fileId \o ManualInfix \o manual[i].id,
                            card |-> manual[i].card, order |-> 0, source |-> "manual"]]
             sorted == SortByX(entries)
         IN [i \in 1..Len(sorted) |-> [sorted[i] EXCEPT !.order = i]]

\* Math.sqrt on the fixed-point grid: the largest r with r * r <= n.
RECURSIVE SqrtBetween(_, _, _)
SqrtBetween(n, lo, hi) ==
    IF lo >= hi THEN lo
    ELSE LET mid == (lo + hi + 1) \div 2
         IN IF mid * mid <= n THEN SqrtBetween(n, mid, hi) ELSE SqrtBetween(n, lo, mid - 1)

RECURSIVE SqrtAbove(_, _)
SqrtAbove(n, p) == IF p * p > n THEN p ELSE SqrtAbove(n, 2 * p)

Sqrt(n) == SqrtBetween(n, 0, SqrtAbove(n, 1))

\* Distance of two centres in hundredths of a grid unit.
CentroidDistance(a, b) ==
    LET dx == a.card.centerNorm[1] - b.card.centerNorm[1]
        dy == a.card.centerNorm[2] - b.card.centerNorm[2]
    IN Sqrt(10000 * (dx * dx + dy * dy))

\* front.reduce((total, item, index) => ..., 0)
RECURSIVE ReduceDistance(_, _, _, _)
ReduceDistance(front, back, index, sum) ==
    IF index > Len(front) THEN sum
    ELSE IF index > Len(back) THEN ReduceDistance(front, back, index + 1, sum)
    ELSE ReduceDistance(front, back, index + 1,
                        sum + CentroidDistance(front[index], back[index]))

computeTotalDistance(front, back) == ReduceDistance(front, back, 1, 0)

Finite(v) == [finite |-> TRUE, value |-> v]

\* a < b on numbers that may be +infinity.
LessThan(a, b) ==
    IF ~a.finite THEN FALSE
    ELSE IF ~b.finite THEN TRUE
    ELSE a.value < b.value

\* The useMemo of lines 100-107.
Distances(front, back) ==
    IF Len(front) = 0 \/ Len(front) # Len(back)
    THEN [forwardDistance |-> Infinity, reversedDistance |-> Infinity]
    ELSE [forwardDistance |-> Finite(computeTotalDistance(front, back)),
          reversedDistance |-> Finite(computeTotalDistance(front, Reverse(back)))]

\* A comparison that also reverses on a tie.
ReverseRecommended_OnTie(forward, reversed) == ~LessThan(forward, reversed)

\* Line 109.
ReverseRecommended(forward, reversed) == LessThan(reversed, forward)

frontFile == IF Len(sess.files) >= 1 THEN sess.files[1] ELSE Undefined
backFile == IF Len(sess.files) >= 2 THEN sess.files[2] ELSE Undefined

FrontCardsOf(session) ==
    createAdjustedCards(IF Len(session.files) >= 1 THEN session.files[1] ELSE Undefined,
                        session.detectedCards, session.adjustments)
BackCardsOf(session) ==
    createAdjustedCards(IF Len(session.files) >= 2 THEN session.files[2] ELSE Undefined,
                        session.detectedCards, session.adjustments)

frontCards == FrontCardsOf(sess)
backCards == BackCardsOf(sess)

forwardDistance == Distances(frontCards, backCards).forwardDistance
reversedDistance == Distances(frontCards, backCards).reversedDistance

RecommendedFor(session) ==
    LET d == Distances(FrontCardsOf(session), BackCardsOf(session))
    IN ReverseRecommended(d.forwardDistance, d.reversedDistance)

reverseRecommended == RecommendedFor(sess)

\* Line 275.
AutoPairingFor(session) ==
    /\ Len(FrontCardsOf(session)) > 0
    /\ Len(FrontCardsOf(session)) = Len(BackCardsOf(session))

autoPairing == AutoPairingFor(sess)

----------------------------------------------------------------------------
(* The pairing step: component state and handlers                          *)

Ids(entries) == {entries[i].id : i \in 1..Len(entries)}

\* The effect of lines 129-139 as a state updater.
ReconcileAssignments(current, fronts, backs) ==
    [frontId \in Ids(fronts) |->
       IF /\ frontId \in DOMAIN current
          /\ current[frontId] # Null
          /\ current[frontId] \in Ids(backs)
       THEN current[frontId]
       ELSE Null]

\* The effect of lines 141-144 as a state updater.
ReconcileSkipped(current, backs) ==
    LET Valid(id) == id \in Ids(backs)
    IN SelectSeq(current, Valid)

\* The effect of lines 113-124.
CountsEffect(state, session) ==
    LET front == Len(FrontCardsOf(session))
        back == Len(BackCardsOf(session))
    IN IF state.previousCounts.front # front \/ state.previousCounts.back # back
       THEN [state EXCEPT !.previousCounts = [front |-> front, back |-> back],
                          !.reverseBacks = IF front = back /\ front > 0
                                           THEN RecommendedFor(session)
                                           ELSE FALSE]
       ELSE state

\* The effects that run after a render with the given session data.
RunEffects(state, session) ==
    [CountsEffect(state, session) EXCEPT
       !.assignments = ReconcileAssignments(state.assignments, FrontCardsOf(session),
                                            BackCardsOf(session)),
       !.skippedBacks = ReconcileSkipped(state.skippedBacks, BackCardsOf(session))]

\* PairsStep after its first render and its effects (lines 94-144).
PairsMounted(session) ==
    [RunEffects([Unmounted EXCEPT !.mounted = TRUE,
                                  !.reverseBacks = RecommendedFor(session)], session)
     EXCEPT !.lastOp = "mount"]

Mount ==
    /\ ~ps.mounted
    /\ ps' = PairsMounted(sess)
    /\ savedPairs' = IF Len(frontCards) = 0 THEN <<>> ELSE savedPairs
    /\ UNCHANGED sess
    /\ UNCHANGED <<exportVars, resolveVars, proxyVars>>

\* Navigation to another step discards the component state.
Unmount ==
    /\ ps.mounted
    /\ ps' = Unmounted
    /\ UNCHANGED <<sess, savedPairs>>
    /\ UNCHANGED <<exportVars, resolveVars, proxyVars>>

\* An updater that leaves the back with the front it was on.
assignBackToFront_KeepOthers(current, frontId, backId) ==
    [key \in (DOMAIN current) \cup {frontId} |->
       IF key = frontId THEN backId ELSE current[key]]

\* The setAssignments updater of assignBackToFront (lines 161-168).
assignBackToFront(current, frontId, backId) ==
    [key \in (DOMAIN current) \cup {frontId} |->
       IF key = frontId THEN backId
       ELSE IF current[key] = backId THEN Null ELSE current[key]]

Without(seq, id) ==
    LET Other(x) == x # id
    IN SelectSeq(seq, Other)

\* Text a drop can carry: the id of any back detection, or text from elsewhere.
ForeignText == <<"t", "e", "x", "t">>
DropTexts == Ids(backCards) \cup {ForeignText}

ManualMode == ps.mounted /\ Len(frontCards) > 0 /\ ~autoPairing

\* Lines 172-182 with assignBackToFront (160-170).
handleDropOnFront ==
    /\ ManualMode
    /\ \E frontId \in Ids(frontCards) : \E backId \in DropTexts :
         ps' = [ps EXCEPT !.assignments = assignBackToFront(@, frontId, backId),
                          !.skippedBacks = Without(@, backId),
                          !.lastOp = "drop"]
    /\ UNCHANGED <<sess, savedPairs>>
    /\ UNCHANGED <<exportVars, resolveVars, proxyVars>>

\* Lines 184-198.
handleDropSkip ==
    /\ ManualMode
    /\ \E backId \in DropTexts :
         ps' = [ps EXCEPT !.assignments = [key \in DOMAIN @ |->
                                             IF @[key] = backId THEN Null ELSE @[key]],
                          !.skippedBacks = IF backId \in Range(@) THEN @
                                           ELSE Append(@, backId),
                          !.lastOp = "skip"]
    /\ UNCHANGED <<sess, savedPairs>>
    /\ UNCHANGED <<exportVars, resolveVars, proxyVars>>

\* Lines 200-202; the button is shown on a front that has an assigned back.
handleClearAssignment ==
    /\ ManualMode
    /\ \E frontId \in Ids(frontCards) :
         /\ ps.assignments[frontId] \in Ids(backCards)
         /\ ps' = [ps EXCEPT !.assignments[frontId] = Null, !.lastOp = "clear"]
    /\ UNCHANGED <<sess, savedPairs>>
    /\ UNCHANGED <<exportVars, resolveVars, proxyVars>>

\* Lines 204-206; the button is shown for each skipped back detection.
handleRestoreBack ==
    /\ ManualMode
    /\ \E backId \in Ids(backCards) \cap Range(ps.skippedBacks) :
         ps' = [ps EXCEPT !.skippedBacks = Without(@, backId), !.lastOp = "restore"]
    /\ UNCHANGED <<sess, savedPairs>>
    /\ UNCHANGED <<exportVars, resolveVars, proxyVars>>

\* Lines 208-210; the checkbox is rendered in auto mode when reversal is recommended.
handleReverseToggle ==
    /\ ps.mounted
    /\ autoPairing
    /\ reverseRecommended
    /\ ps' = [ps EXCEPT !.reverseBacks = ~@, !.lastOp = "reverse"]
    /\ UNCHANGED <<sess, savedPairs>>
    /\ UNCHANGED <<exportVars, resolveVars, proxyVars>>

\* A save that ignores the reverse option.
BackOrder_Forward(backs, reverseBacks) == backs

\* Line 262.
BackOrder(backs, reverseBacks) == IF reverseBacks THEN Reverse(backs) ELSE backs

PairId(frontId) == <<"p", "a", "i", "r", "-">> \o frontId

Find(entries, id) ==
    LET hits == {i \in 1..Len(entries) : entries[i].id = id}
    IN IF hits = {} THEN Undefined ELSE entries[CHOOSE i \in hits : TRUE].id

\* The pairs handleSavePairs hands to setPairs (lines 238-272).
NextPairs(fronts, backs, assignments, reverseBacks) ==
    IF frontFile = Undefined \/ Len(fronts) = 0 THEN <<>>
    ELSE IF backFile = Undefined \/ Len(fronts) # Len(backs)
    THEN [i \in 1..Len(fronts) |->
            LET assignedId == assignments[fronts[i].id]
                matched == IF assignedId # Null THEN Find(backs, assignedId) ELSE Undefined
            IN [id |-> PairId(fronts[i].id),
                primaryFileId |-> frontFile,
                primaryDetectionId |-> fronts[i].id,
                secondaryFileId |-> IF matched # Undefined THEN backFile ELSE Undefined,
                secondaryDetectionId |-> matched,
                status |-> IF matched # Undefined THEN "matched" ELSE "pending"]]
    ELSE LET order == BackOrder(backs, reverseBacks)
         IN [i \in 1..Len(fronts) |->
               [id |-> PairId(fronts[i].id),
                primaryFileId |-> frontFile,
                primaryDetectionId |-> fronts[i].id,
                secondaryFileId |-> IF i <= Len(order) THEN backFile ELSE Undefined,
                secondaryDetectionId |-> IF i <= Len(order) THEN order[i].id ELSE Undefined,
                status |-> IF i <= Len(order) THEN "matched" ELSE "pending"]]

\* Lines 237-273; the Next button is disabled without front detections (line 425).
handleSavePairs ==
    /\ ps.mounted
    /\ Len(frontCards) > 0
    /\ savedPairs' = NextPairs(frontCards, backCards, ps.assignments, ps.reverseBacks)
    /\ ps' = [ps EXCEPT !.lastOp = "save"]
    /\ UNCHANGED sess
    /\ UNCHANGED <<exportVars, resolveVars, proxyVars>>

\* toggleDetectionActive of the session store (session.ts), and the re-render of a
\* mounted PairsStep that follows it.
RECURSIVE SortedSeq(_)
SortedSeq(set) ==
    IF set = {} THEN <<>>
    ELSE LET least == CHOOSE x \in set : \A y \in set : x <= y
         IN <<least>> \o SortedSeq(set \ {least})

ToggleIn(store, fileId, index) ==
    LET current == IF fileId \in DOMAIN store.adjustments
                   THEN store.adjustments[fileId]
                   ELSE [disabledAuto |-> <<>>, manual |-> <<>>]
        disabledSet == IF index \in Range(current.disabledAuto)
                       THEN Range(current.disabledAuto) \ {index}
                       ELSE Range(current.disabledAuto) \cup {index}
    IN [store EXCEPT !.adjustments =
          Put(@, fileId, [current EXCEPT !.disabledAuto = SortedSeq(disabledSet)])]

toggleDetectionActive ==
    /\ \E fileId \in Range(sess.files) \cap DOMAIN sess.detectedCards :
         \E index \in 0..(Len(sess.detectedCards[fileId]) - 1) :
           LET next == ToggleIn(sess, fileId, index)
           IN /\ sess' = next
              /\ IF ps.mounted
                 THEN /\ ps' = [RunEffects(ps, next) EXCEPT !.lastOp = "store"]
                      /\ savedPairs' = IF /\ Len(FrontCardsOf(next)) = 0
                                          /\ Len(frontCards) # 0
                                       THEN <<>> ELSE savedPairs
                 ELSE UNCHANGED <<ps, savedPairs>>
    /\ UNCHANGED <<exportVars, resolveVars, proxyVars>>

----------------------------------------------------------------------------
(* The pairing step: specifications                                        *)

CenterPool == {<<0, 0>>, <<1, 0>>, <<1, 2>>}

RECURSIVE CardListsOf(_, _)
CardListsOf(centers, n) ==
    IF n = 0 THEN {<<>>}
    ELSE LET shorter == CardListsOf(centers, n - 1)
         IN shorter \cup {Append(list, [centerNorm |-> c]) :
                            list \in {l \in shorter : Len(l) = n - 1}, c \in centers}

\* The store after detection: a file without detections has no entry (setDetectedCards).
WithCards(map, fileId, value) == IF value = <<>> THEN map ELSE Put(map, fileId, value)

SessionOf(files, front, frontDisabled, back) ==
    [files |-> files,
     detectedCards |-> WithCards(WithCards(EmptyMap, FileF, front), FileG,
                                 IF Len(files) >= 2 THEN back ELSE <<>>),
     adjustments |->
       WithCards(WithCards(EmptyMap, FileF,
                           IF front = <<>> THEN <<>>
                           ELSE [disabledAuto |-> frontDisabled, manual |-> <<>>]),
                 FileG,
                 IF Len(files) >= 2 /\ back # <<>>
                 THEN [disabledAuto |-> <<>>, manual |-> <<>>] ELSE <<>>)]

\* Sessions with up to MaxDetections detections per side anywhere on a small grid.
InitDistance ==
    /\ \E front \in CardListsOf(CenterPool, MaxDetections) :
         \E back \in CardListsOf(CenterPool, MaxDetections) :
           \E frontDisabled \in {<<>>, <<0>>} :
             \E files \in {<<FileF>>, <<FileF, FileG>>} :
               /\ Len(files) = 1 => back = <<>>
               /\ sess = SessionOf(files, front, frontDisabled, back)
    /\ ps = Unmounted
    /\ savedPairs = <<>>
    /\ IdleExport
    /\ IdleResolve
    /\ IdleProxy

NextDistance ==
    \/ Mount
    \/ handleReverseToggle
    \/ handleSavePairs

SpecDistance ==
    InitDistance /\ [][NextDistance]_vars

MaxBacks == 2

\* Numbers of front detections.
FrontCounts == {0, 1, 2}

\* Detection i of the front photo, and of a back photo whose cards lie in the same
\* or in the mirrored arrangement.
FrontCard(i) == [centerNorm |-> <<i, 3 * i>>]
BackCard(i, count, mirrored) ==
    [centerNorm |-> <<i, IF mirrored THEN 3 * (count + 1 - i) ELSE 3 * i>>]

InitPairs ==
    /\ \E nf \in FrontCounts : \E nb \in 0..MaxBacks : \E mirrored \in BOOLEAN :
         \E files \in {<<FileF>>, <<FileF, FileG>>} :
           /\ Len(files) = 1 => nb = 0 /\ ~mirrored
           /\ nb < 2 => ~mirrored
           /\ sess = SessionOf(files, [i \in 1..nf |-> FrontCard(i)], <<>>,
                               [i \in 1..nb |-> BackCard(i, nb, mirrored)])
    /\ ps = Unmounted
    /\ savedPairs = <<>>
    /\ IdleExport
    /\ IdleResolve
    /\ IdleProxy

NextPairing ==
    \/ Mount
    \/ Unmount
    \/ handleDropOnFront
    \/ handleDropSkip
    \/ handleClearAssignment
    \/ handleRestoreBack
    \/ handleReverseToggle
    \/ handleSavePairs
    \/ toggleDetectionActive

SpecPairs ==
    InitPairs /\ [][NextPairing]_vars

----------------------------------------------------------------------------
(* Claims about the pairing step                                           *)

RECURSIVE IndexSum(_, _, _)
IndexSum(front, back, n) ==
    IF n = 0 THEN 0
    ELSE IndexSum(front, back, n - 1) + CentroidDistance(front[n], back[n])

\* C8: forwardDistance and reversedDistance are both +infinity when there is no front
\* candidate or the front and back lists differ in length (which is manual mode when
\* there are fronts); otherwise they are the index-wise sums of centroid distances
\* against the back list and the reversed back list; reversal is recommended exactly
\* when reversedDistance < forwardDistance, so a tie keeps the forward order.
C8_Distances ==
    ps.mounted =>
      LET n == Len(frontCards)
      IN /\ (n = 0 \/ n # Len(backCards)) =>
              /\ forwardDistance = Infinity
              /\ reversedDistance = Infinity
              /\ ~reverseRecommended
         /\ (n > 0 /\ n # Len(backCards)) => ~autoPairing
         /\ (n > 0 /\ n = Len(backCards)) =>
              /\ forwardDistance = Finite(IndexSum(frontCards, backCards, n))
              /\ reversedDistance = Finite(IndexSum(frontCards, Reverse(backCards), n))
              /\ reverseRecommended <=>
                   IndexSum(frontCards, Reverse(backCards), n)
                     < IndexSum(frontCards, backCards, n)
         /\ (ps.lastOp = "mount" /\ ~reverseRecommended) => ~ps.reverseBacks
         /\ (ps.lastOp = "mount" /\ reverseRecommended) => ps.reverseBacks

\* Equal counts and an exact, non-zero tie: the forward order is kept.
C8_Witness ==
    /\ ps.mounted
    /\ Len(frontCards) >= 2
    /\ Len(frontCards) = Len(backCards)
    /\ forwardDistance.finite
    /\ forwardDistance.value > 0
    /\ forwardDistance = reversedDistance
    /\ ~ps.reverseBacks

SavedBacks == {i \in 1..Len(savedPairs) : savedPairs[i].secondaryDetectionId # Undefined}

\* C9: in manual pairing mode every front detection has one assignment slot holding at
\* most one back, no back is assigned to two fronts, no back is both assigned and
\* skipped, and the saved pairs contain each back detection in at most one pair.
C9_ManualAssignments ==
    /\ ps.mounted =>
         /\ DOMAIN ps.assignments = Ids(frontCards)
         /\ \A f \in DOMAIN ps.assignments : \A g \in DOMAIN ps.assignments :
              (f # g /\ ps.assignments[f] # Null) => ps.assignments[f] # ps.assignments[g]
         /\ \A f \in DOMAIN ps.assignments :
              ps.assignments[f] # Null => ps.assignments[f] \notin Range(ps.skippedBacks)
    /\ \A i \in SavedBacks : \A j \in SavedBacks :
         i # j => savedPairs[i].secondaryDetectionId # savedPairs[j].secondaryDetectionId

\* Manual mode after a save: a front holds one back, another back is skipped, and the
\* saved pairs carry the assigned back once.
C9_Witness ==
    /\ ManualMode
    /\ \E f \in DOMAIN ps.assignments : ps.assignments[f] \in Ids(backCards)
    /\ Range(ps.skippedBacks) \cap Ids(backCards) # {}
    /\ ps.lastOp = "save"
    /\ Cardinality(SavedBacks) = 1

\* C10: a saved pair is 'matched' exactly when secondaryDetectionId and
\* secondaryFileId are both set and 'pending' exactly when both are unset; with equal
\* non-zero counts every saved pair is matched and front i goes with back i, or with
\* back N-1-i when the reverse option is on.
C10_SavedPairs ==
    /\ \A i \in 1..Len(savedPairs) :
         LET pair == savedPairs[i]
         IN /\ pair.status \in {"matched", "pending"}
            /\ pair.status = "matched" <=>
                 (pair.secondaryDetectionId # Undefined /\ pair.secondaryFileId # Undefined)
            /\ pair.status = "pending" <=>
                 (pair.secondaryDetectionId = Undefined /\ pair.secondaryFileId = Undefined)
    /\ (ps.lastOp = "save" /\ autoPairing) =>
         LET n == Len(frontCards)
         IN /\ Len(savedPairs) = n
            /\ \A i \in 1..n :
                 /\ savedPairs[i].status = "matched"
                 /\ savedPairs[i].primaryDetectionId = frontCards[i].id
                 /\ savedPairs[i].secondaryFileId = backFile
                 /\ savedPairs[i].secondaryDetectionId =
                      backCards[IF ps.reverseBacks THEN n + 1 - i ELSE i].id

\* A save in auto mode with the reverse option on and two or more pairs.
C10_Witness ==
    /\ ps.lastOp = "save"
    /\ autoPairing
    /\ ps.reverseBacks
    /\ Len(savedPairs) >= 2
    /\ savedPairs[1].secondaryDetectionId = backCards[Len(backCards)].id

----------------------------------------------------------------------------
(* The export worker's processPair on arbitrary requests                   *)

QuadLengths == {0, 3, 4, 5}

\* Requests as exportSession builds them (toWorkerPayload sets side from the slot); the
\* request type also allows a missing front.
InitProcessPair ==
    /\ \E hasFront \in BOOLEAN, hasBack \in BOOLEAN, includeWarped \in BOOLEAN :
         \E extension \in {"jpg", "png"} : \E fq \in QuadLengths : \E bq \in QuadLengths :
           rIn = [fileExtension |-> extension,
                  includeWarped |-> includeWarped,
                  hasFront |-> hasFront,
                  front |-> [side |-> "front", quadLen |-> fq],
                  hasBack |-> hasBack,
                  back |-> [side |-> "back", quadLen |-> bq]]
    /\ rOut = [called |-> FALSE, images |-> <<>>]
    /\ IdleExport
    /\ IdlePairs
    /\ IdleProxy

ProcessPairCall ==
    /\ ~rOut.called
    /\ rOut' = [called |-> TRUE, images |-> processPair(rIn)]
    /\ UNCHANGED rIn
    /\ UNCHANGED <<exportVars, pairVars, proxyVars>>

NextProcessPair == ProcessPairCall

SpecProcessPair ==
    InitProcessPair /\ [][NextProcessPair]_vars

SideNames(prefix, extension) ==
    << <<prefix, "LISTING", extension>>, <<prefix, "TOP_LEFT", extension>>,
       <<prefix, "TOP_RIGHT", extension>>, <<prefix, "BOTTOM_LEFT", extension>>,
       <<prefix, "BOTTOM_RIGHT", extension>> >>

\* C11: processPair returns for the front side LISTING, TOP_LEFT, TOP_RIGHT,
\* BOTTOM_LEFT, BOTTOM_RIGHT and then WARPED exactly when includeWarped is set and the
\* front quad has 4 points, followed for a present back side by the same five images
\* prefixed BACK; no BACK WARPED image is produced, all names in a result are distinct,
\* and a front-only jpg request with includeWarped and a 4-point quad yields exactly
\* the six FRONT names.
C11_ProcessPairNames ==
    rOut.called =>
      LET ext == rIn.fileExtension
          warped == rIn.includeWarped /\ rIn.front.quadLen = 4
          front == IF ~rIn.hasFront THEN <<>>
                   ELSE IF warped THEN Append(SideNames("FRONT", ext), <<"FRONT", "WARPED", ext>>)
                   ELSE SideNames("FRONT", ext)
          back == IF rIn.hasBack THEN SideNames("BACK", ext) ELSE <<>>
      IN /\ rOut.images = front \o back
         /\ \A i \in 1..Len(rOut.images) : rOut.images[i] # <<"BACK", "WARPED", ext>>
         /\ \A i \in 1..Len(rOut.images) : \A j \in 1..Len(rOut.images) :
              i # j => rOut.images[i] # rOut.images[j]
         /\ (rIn.hasFront /\ ~rIn.hasBack /\ warped /\ ext = "jpg") =>
              rOut.images = << <<"FRONT", "LISTING", "jpg">>, <<"FRONT", "TOP_LEFT", "jpg">>,
                               <<"FRONT", "TOP_RIGHT", "jpg">>,
                               <<"FRONT", "BOTTOM_LEFT", "jpg">>,
                               <<"FRONT", "BOTTOM_RIGHT", "jpg">>,
                               <<"FRONT", "WARPED", "jpg">> >>

\* A front with a 4-point quad and a back with a 4-point quad, warped requested: eleven
\* images, the sixth being the front's warped image.
C11_Witness ==
    /\ rOut.called
    /\ rIn.hasFront /\ rIn.hasBack /\ rIn.includeWarped
    /\ rIn.front.quadLen = 4 /\ rIn.back.quadLen = 4
    /\ Len(rOut.images) = 11
    /\ rOut.images[6][2] = "WARPED"

----------------------------------------------------------------------------
(* The export worker's crop geometry: clampRect and computeQuadrants       *)

MaxDim == 4

Min(a, b) == IF a < b THEN a ELSE b

\* Math.round of a number given in tenths: the nearest integer, halves rounded up.
Round(tenths) == (tenths + 5) \div 10

\* An integer rectangle as a rectangle in tenths.
Tenths(rect) ==
    [x |-> 10 * rect.x, y |-> 10 * rect.y,
     width |-> 10 * rect.width, height |-> 10 * rect.height]

\* A clamp that does not keep x and y below the image size.
clampRect_NoUpperBound(rect, maxWidth, maxHeight) ==
    LET x == Max(Round(rect.x), 0)
        y == Max(Round(rect.y), 0)
    IN [x |-> x, y |-> y,
        width |-> Max(1, Min(Round(rect.width), maxWidth - x)),
        height |-> Max(1, Min(Round(rect.height), maxHeight - y))]

\* clampRect; the rectangle's fields are given in tenths, the result is in pixels.
clampRect(rect, maxWidth, maxHeight) ==
    LET x == Min(Max(Round(rect.x), 0), Max(0, maxWidth - 1))
        y == Min(Max(Round(rect.y), 0), Max(0, maxHeight - 1))
    IN [x |-> x, y |-> y,
        width |-> Max(1, Min(Round(rect.width), maxWidth - x)),
        height |-> Max(1, Min(Round(rect.height), maxHeight - y))]

\* Quadrants measured from the left and top edge only.
computeQuadrants_FromOrigin(bbox) ==
    LET detailWidth == Max(1, Round(bbox.width * 6))
        detailHeight == Max(1, Round(bbox.height * 6))
    IN << [x |-> bbox.x, y |-> bbox.y, width |-> detailWidth, height |-> detailHeight],
          [x |-> bbox.x + detailWidth, y |-> bbox.y,
           width |-> detailWidth, height |-> detailHeight],
          [x |-> bbox.x, y |-> bbox.y + detailHeight,
           width |-> detailWidth, height |-> detailHeight],
          [x |-> bbox.x + detailWidth, y |-> bbox.y + detailHeight,
           width |-> detailWidth, height |-> detailHeight] >>

\* computeQuadrants; bbox.width * 0.6 is bbox.width * 6 tenths.
computeQuadrants(bbox) ==
    LET detailWidth == Max(1, Round(bbox.width * 6))
        detailHeight == Max(1, Round(bbox.height * 6))
    IN << [x |-> bbox.x, y |-> bbox.y, width |-> detailWidth, height |-> detailHeight],
          [x |-> bbox.x + bbox.width - detailWidth, y |-> bbox.y,
           width |-> detailWidth, height |-> detailHeight],
          [x |-> bbox.x, y |-> bbox.y + bbox.height - detailHeight,
           width |-> detailWidth, height |-> detailHeight],
          [x |-> bbox.x + bbox.width - detailWidth,
           y |-> bbox.y + bbox.height - detailHeight,
           width |-> detailWidth, height |-> detailHeight] >>

NoRect == [x |-> 0, y |-> 0, width |-> 0, height |-> 0]

\* A side payload's bounding box (whole pixels, or off by half a pixel) and image size.
InitCrop ==
    /\ \E x \in (0 - 1)..(MaxDim + 1), y \in (0 - 1)..(MaxDim + 1) :
         \E w \in (0 - 1)..(MaxDim + 1), h \in (0 - 1)..(MaxDim + 1) :
           \E fraction \in {0, 5} : \E width \in 1..MaxDim, height \in 1..MaxDim :
             rIn = [bbox |-> [x |-> 10 * x + fraction, y |-> 10 * y + fraction,
                              width |-> 10 * w + fraction, height |-> 10 * h + fraction],
                    integer |-> fraction = 0,
                    width |-> width, height |-> height]
    /\ rOut = [called |-> FALSE, baseBox |-> NoRect, again |-> NoRect,
               quadrants |-> <<>>, crops |-> <<>>]
    /\ IdleExport
    /\ IdlePairs
    /\ IdleProxy

\* The rectangles processSide computes (lines 317 and 320-322).
CropCall ==
    /\ ~rOut.called
    /\ LET baseBox == clampRect(rIn.bbox, rIn.width, rIn.height)
           quadrants == computeQuadrants(baseBox)
       IN rOut' = [called |-> TRUE,
                   baseBox |-> baseBox,
                   again |-> clampRect(Tenths(baseBox), rIn.width, rIn.height),
                   quadrants |-> quadrants,
                   crops |-> [i \in 1..Len(quadrants) |->
                                clampRect(Tenths(quadrants[i]), rIn.width, rIn.height)]]
    /\ UNCHANGED rIn
    /\ UNCHANGED <<exportVars, pairVars, proxyVars>>

NextCrop == CropCall

SpecCrop ==
    InitCrop /\ [][NextCrop]_vars

InBounds(rect, maxWidth, maxHeight) ==
    /\ 0 <= rect.x
    /\ 0 <= rect.y
    /\ rect.width >= 1
    /\ rect.height >= 1
    /\ rect.x + rect.width <= maxWidth
    /\ rect.y + rect.height <= maxHeight

\* C12: for every integer rectangle and image size of at least 1 x 1, clampRect returns
\* a rectangle with 0 <= x, 0 <= y, width >= 1, height >= 1, x + width <= imageWidth
\* and y + height <= imageHeight; a rectangle already within these bounds comes back
\* unchanged; clamping twice equals clamping once.
C12_ClampRect ==
    rOut.called =>
      /\ InBounds(rOut.baseBox, rIn.width, rIn.height)
      /\ rOut.again = rOut.baseBox
      /\ \A px \in 0..MaxDim, py \in 0..MaxDim, pw \in 1..MaxDim, ph \in 1..MaxDim :
           (/\ rIn.bbox = Tenths([x |-> px, y |-> py, width |-> pw, height |-> ph])
            /\ InBounds([x |-> px, y |-> py, width |-> pw, height |-> ph],
                        rIn.width, rIn.height))
           => rOut.baseBox = [x |-> px, y |-> py, width |-> pw, height |-> ph]

\* A rectangle that starts right of the image and is wider than it was pulled inside.
C12_Witness ==
    /\ rOut.called
    /\ rIn.integer
    /\ rIn.bbox.x >= 10 * rIn.width
    /\ rIn.bbox.width > 10 * rIn.width
    /\ rIn.bbox.y < 0
    /\ rOut.baseBox.x = rIn.width - 1
    /\ rOut.baseBox.width = 1

\* max(1, round(0.6 * n)) said without Math.round: the integer nearest to 0.6 * n.
IsDetailSize(d, n) ==
    /\ d >= 1
    /\ d > 1 => (10 * d - 5 <= 6 * n /\ 6 * n < 10 * d + 5)
    /\ d = 1 => 6 * n < 15

Inside(inner, outer) ==
    /\ outer.x <= inner.x
    /\ outer.y <= inner.y
    /\ inner.x + inner.width <= outer.x + outer.width
    /\ inner.y + inner.height <= outer.y + outer.height

\* C13: for every clamped bounding box computeQuadrants returns four rectangles of size
\* max(1, round(0.6 width)) x max(1, round(0.6 height)), anchored at the top-left,
\* top-right, bottom-left and bottom-right corner of the box, each inside the box, so
\* that the reclamp to image bounds leaves each unchanged.
C13_Quadrants ==
    rOut.called =>
      LET box == rOut.baseBox
          q == rOut.quadrants
      IN /\ Len(q) = 4
         /\ \A i \in 1..4 :
              /\ IsDetailSize(q[i].width, box.width)
              /\ IsDetailSize(q[i].height, box.height)
              /\ Inside(q[i], box)
              /\ rOut.crops[i] = q[i]
         /\ q[1].x = box.x /\ q[1].y = box.y
         /\ q[2].x + q[2].width = box.x + box.width /\ q[2].y = box.y
         /\ q[3].x = box.x /\ q[3].y + q[3].height = box.y + box.height
         /\ q[4].x + q[4].width = box.x + box.width
         /\ q[4].y + q[4].height = box.y + box.height

\* A box of 4 x 3 pixels: quadrants of 2 x 2 that overlap in the middle.
C13_Witness ==
    /\ rOut.called
    /\ rOut.baseBox.width = 4
    /\ rOut.baseBox.height = 3
    /\ rOut.baseBox.x = 0
    /\ rOut.quadrants[4] = [x |-> 2, y |-> 1, width |-> 2, height |-> 2]

----------------------------------------------------------------------------
(* The detection worker's orderQuadPoints                                  *)

MaxCoord == 2

\* Array.prototype.sort with a comparator that subtracts keys: a stable sort. The
\* entries are records [key, value].
InsertKeyed(sorted, entry) ==
    LET before == SelectSeq(sorted, LAMBDA other : other.key <= entry.key)
        after == SelectSeq(sorted, LAMBDA other : other.key > entry.key)
    IN before \o <<entry>> \o after

RECURSIVE SortKeyed(_)
SortKeyed(entries) ==
    IF entries = <<>> THEN <<>>
    ELSE InsertKeyed(SortKeyed(SubSeq(entries, 1, Len(entries) - 1)),
                     entries[Len(entries)])

Values(entries) == [i \in 1..Len(entries) |-> entries[i].value]

CoordSum(point) == point[1] + point[2]

\* sorted.sort((a, b) => a[0] + a[1] - (b[0] + b[1]))
SortBySum(points) ==
    Values(SortKeyed([i \in 1..Len(points) |->
                        [key |-> CoordSum(points[i]), value |-> points[i]]]))

\* remaining.sort((a, b) => a[0] - b[0])
SortByCoordX(points) ==
    Values(SortKeyed([i \in 1..Len(points) |-> [key |-> points[i][1], value |-> points[i]]]))

orderQuadPoints(points) ==
    IF Len(points) # 4 THEN points
    ELSE LET sorted == SortBySum(points)
             topLeft == sorted[1]
             bottomRight == sorted[4]
             remaining == SortByCoordX(SubSeq(sorted, 2, 3))
             topRight == remaining[1]
             bottomLeft == remaining[2]
         IN <<topLeft, topRight, bottomRight, bottomLeft>>

GridPoints == (0..MaxCoord) \X (0..MaxCoord)

InitQuad ==
    /\ \E n \in {3, 4} : \E points \in [1..n -> GridPoints] :
         rIn = [points |-> points]
    /\ rOut = [called |-> FALSE, once |-> <<>>, twice |-> <<>>]
    /\ IdleExport
    /\ IdlePairs
    /\ IdleProxy

OrderCall ==
    /\ ~rOut.called
    /\ rOut' = [called |-> TRUE,
                once |-> orderQuadPoints(rIn.points),
                twice |-> orderQuadPoints(orderQuadPoints(rIn.points))]
    /\ UNCHANGED rIn
    /\ UNCHANGED <<exportVars, pairVars, proxyVars>>

NextQuad == OrderCall

SpecQuad ==
    InitQuad /\ [][NextQuad]_vars

\* The corners of the axis-aligned rectangle [x0, x1] x [y0, y1], clockwise in image
\* coordinates from the top-left: the order createWarpedBlob maps to
\* (0,0), (W,0), (W,H), (0,H).
RectClockwise(x0, y0, x1, y1) ==
    << <<x0, y0>>, <<x1, y0>>, <<x1, y1>>, <<x0, y1>> >>

\* C14: orderQuadPoints returns 4 points starting from one with the smallest x+y, and
\* the corners of an axis-aligned rectangle, given in any order, come back as
\* top-left, top-right, bottom-right, bottom-left.
C14_Clockwise ==
    (rOut.called /\ Len(rIn.points) = 4) =>
      /\ \A i \in 1..4 : CoordSum(rOut.once[1]) <= CoordSum(rIn.points[i])
      /\ \A x0 \in 0..MaxCoord, y0 \in 0..MaxCoord, x1 \in 0..MaxCoord, y1 \in 0..MaxCoord :
           (/\ x0 < x1
            /\ y0 < y1
            /\ Range(rIn.points) = Range(RectClockwise(x0, y0, x1, y1)))
           => rOut.once = RectClockwise(x0, y0, x1, y1)

\* C15: orderQuadPoints is idempotent on every list of 4 points, ties included.
C15_Idempotent ==
    (rOut.called /\ Len(rIn.points) = 4) => rOut.twice = rOut.once

----------------------------------------------------------------------------
(* The detection worker's detectCards                                      *)

MaxContours == 2

MinContourArea == 250000

\* area < Math.max(250000, width * height * 0.015), without fractions.
BelowThreshold(area, width, height) ==
    \/ area < MinContourArea
    \/ 200 * area < 3 * width * height

\* The OpenCV calls of the pipeline, in program order.
Stages ==
    <<"bitmapToMat", "cvtColor", "GaussianBlur", "Canny", "getStructuringElement",
      "morphologyEx", "findContours">>

MatNames ==
    {"src", "gray", "blurred", "edges", "kernel", "closed", "contours", "hierarchy"}

\* The handles that exist when the given call throws.
AllocatedBefore(stage) ==
    CASE stage = "bitmapToMat" -> {}
      [] stage = "cvtColor" -> {"src", "gray"}
      [] stage = "GaussianBlur" -> {"src", "gray", "blurred"}
      [] stage \in {"Canny", "getStructuringElement"} -> {"src", "gray", "blurred", "edges"}
      [] stage = "morphologyEx" -> {"src", "gray", "blurred", "edges", "kernel", "closed"}
      [] OTHER -> MatNames

NoLoop == [deletes |-> <<>>, detections |-> <<>>, threw |-> FALSE]

\* The for loop over contours from the 1-based position i on. deletes[i] counts the
\* calls of contour.delete() on the i-th contour. A second delete() of a handle throws
\* when the binding is strict.
RECURSIVE ContourLoop(_, _, _)
ContourLoop(input, i, acc) ==
    IF i > Len(input.contours) \/ acc.threw THEN acc
    ELSE LET contour == input.contours[i]
         IN IF input.fault = "contourArea"
            THEN ContourLoop(input, i + 1,
                   [acc EXCEPT !.deletes = Append(@, 1), !.threw = TRUE])
            ELSE IF BelowThreshold(contour.area, input.width, input.height)
            THEN ContourLoop(input, i + 1,
                   [acc EXCEPT !.deletes = Append(@, 2), !.threw = input.strictDelete])
            ELSE ContourLoop(input, i + 1,
                   [acc EXCEPT !.deletes = Append(@, 1),
                               !.detections = Append(@, [centerNorm |-> contour.center,
                                                           area |-> contour.area])])

\* detections.sort((a, b) => a.centerNorm[0] - b.centerNorm[0])
SortByCenter(detections) ==
    Values(SortKeyed([i \in 1..Len(detections) |->
                        [key |-> detections[i].centerNorm, value |-> detections[i]]]))

detectCards(input) ==
    IF input.fault \in Range(Stages)
    THEN [called |-> TRUE, threw |-> TRUE, detections |-> <<>>,
          allocated |-> AllocatedBefore(input.fault),
          deletes |-> [name \in MatNames |-> 0],
          contourDeletes |-> <<>>]
    ELSE LET loop == ContourLoop(input, 1, NoLoop)
         IN IF loop.threw
            THEN [called |-> TRUE, threw |-> TRUE, detections |-> <<>>,
                  allocated |-> MatNames,
                  deletes |-> [name \in MatNames |-> 0],
                  contourDeletes |-> loop.deletes]
            ELSE [called |-> TRUE, threw |-> FALSE,
                  detections |-> SortByCenter(loop.detections),
                  allocated |-> MatNames,
                  deletes |-> [name \in MatNames |-> 1],
                  contourDeletes |-> loop.deletes]

\* Contours as findContours reports them: area in square pixels, centre x in tenths of
\* the image width.
ContourPool ==
    {[area |-> 10000, center |-> 5], [area |-> 50000, center |-> 3],
     [area |-> 250000, center |-> 7], [area |-> 300000, center |-> 2],
     [area |-> 400000, center |-> 5]}

ImageSizes == {<<1000, 1000>>, <<4000, 6000>>}

InitDetect ==
    /\ \E n \in 0..MaxContours : \E contours \in [1..n -> ContourPool] :
         \E size \in ImageSizes, strictDelete \in BOOLEAN :
           \E fault \in Range(Stages) \cup {"contourArea", "none"} :
             rIn = [width |-> size[1], height |-> size[2], contours |-> contours,
                    fault |-> fault, strictDelete |-> strictDelete]
    /\ rOut = [called |-> FALSE, threw |-> FALSE, detections |-> <<>>,
               allocated |-> {}, deletes |-> [name \in MatNames |-> 0],
               contourDeletes |-> <<>>]
    /\ IdleExport
    /\ IdlePairs
    /\ IdleProxy

DetectCall ==
    /\ ~rOut.called
    /\ rOut' = detectCards(rIn)
    /\ UNCHANGED rIn
    /\ UNCHANGED <<exportVars, pairVars, proxyVars>>

NextDetect == DetectCall

SpecDetect ==
    InitDetect /\ [][NextDetect]_vars

\* C16: on a 1000 x 1000 image a single contour of at least 5% of the image area
\* yields exactly one detection, and an image with no contours yields an empty list.
C16_AreaFilter ==
    (rOut.called /\ rIn.fault = "none") =>
      /\ rIn.contours = <<>> => (~rOut.threw /\ rOut.detections = <<>>)
      /\ (/\ rIn.width = 1000
          /\ rIn.height = 1000
          /\ Len(rIn.contours) = 1
          /\ 100 * rIn.contours[1].area >= 5 * rIn.width * rIn.height)
         => (~rOut.threw /\ Len(rOut.detections) = 1)

\* C17: every OpenCV handle detectCards allocated is deleted exactly once, and so is
\* every contour it obtained, whether the run returns or throws.
C17_HandlesReleasedOnce ==
    rOut.called =>
      /\ \A name \in rOut.allocated : rOut.deletes[name] = 1
      /\ \A i \in 1..Len(rOut.contourDeletes) : rOut.contourDeletes[i] = 1

----------------------------------------------------------------------------
(* The export worker's resources: the decoded bitmap and the warp matrices *)

WarpMats == {"src", "srcPoints", "dstPoints", "transform", "dst"}

\* The calls of createWarpedBlob that can throw, in program order.
WarpStages ==
    <<"ensureOpenCv", "bitmapToMat", "srcPoints", "dstPoints", "getPerspectiveTransform",
      "warpPerspective", "convertToBlob">>

\* The matrices that exist when the given call of createWarpedBlob throws.
WarpAllocatedBefore(stage) ==
    CASE stage \in {"ensureOpenCv", "bitmapToMat"} -> {}
      [] stage = "srcPoints" -> {"src"}
      [] stage = "dstPoints" -> {"src", "srcPoints"}
      [] stage = "getPerspectiveTransform" -> {"src", "srcPoints", "dstPoints"}
      [] OTHER -> WarpMats

\* createWarpedBlob: only warpPerspective and what follows it run inside the try
\* whose finally deletes the five matrices.
createWarpedBlob(fault) ==
    IF fault \in {"ensureOpenCv", "bitmapToMat", "srcPoints", "dstPoints",
                  "getPerspectiveTransform"}
    THEN [threw |-> TRUE, allocated |-> WarpAllocatedBefore(fault),
          deletes |-> [name \in WarpMats |-> 0]]
    ELSE [threw |-> fault \in {"warpPerspective", "convertToBlob"},
          allocated |-> WarpMats,
          deletes |-> [name \in WarpMats |-> 1]]

NoWarp == [threw |-> FALSE, allocated |-> {}, deletes |-> [name \in WarpMats |-> 0]]

\* processSide, as far as resources are concerned.
processSideResources(payload, includeWarped, fault) ==
    IF fault = "createImageBitmap"
    THEN [called |-> TRUE, threw |-> TRUE, decoded |-> FALSE, closes |-> 0,
          allocated |-> {}, deletes |-> NoWarp.deletes]
    ELSE IF fault = "drawCrop"
    THEN [called |-> TRUE, threw |-> TRUE, decoded |-> TRUE, closes |-> 1,
          allocated |-> {}, deletes |-> NoWarp.deletes]
    ELSE LET warp == IF payload.side = "front" /\ includeWarped /\ payload.quadLen = 4
                     THEN createWarpedBlob(fault)
                     ELSE NoWarp
         IN [called |-> TRUE, threw |-> warp.threw, decoded |-> TRUE, closes |-> 1,
             allocated |-> warp.allocated, deletes |-> warp.deletes]

InitSide ==
    /\ \E side \in {"front", "back"}, quadLen \in QuadLengths, includeWarped \in BOOLEAN :
         \E fault \in Range(WarpStages) \cup {"createImageBitmap", "drawCrop", "none"} :
           rIn = [payload |-> [side |-> side, quadLen |-> quadLen],
                  includeWarped |-> includeWarped, fault |-> fault]
    /\ rOut = [called |-> FALSE, threw |-> FALSE, decoded |-> FALSE, closes |-> 0,
               allocated |-> {}, deletes |-> NoWarp.deletes]
    /\ IdleExport
    /\ IdlePairs
    /\ IdleProxy

ProcessSideCall ==
    /\ ~rOut.called
    /\ rOut' = processSideResources(rIn.payload, rIn.includeWarped, rIn.fault)
    /\ UNCHANGED rIn
    /\ UNCHANGED <<exportVars, pairVars, proxyVars>>

NextSide == ProcessSideCall

SpecSide ==
    InitSide /\ [][NextSide]_vars

\* C18: when a side completes, by return or by throw, its decoded bitmap has been closed
\* exactly once and every matrix createWarpedBlob allocated has been deleted exactly
\* once.
C18_SideResourcesReleased ==
    rOut.called =>
      /\ rOut.decoded => rOut.closes = 1
      /\ ~rOut.decoded => rOut.closes = 0
      /\ \A name \in rOut.allocated : rOut.deletes[name] = 1

----------------------------------------------------------------------------
(* The comlink shim: wrap() on the main thread, expose() in the worker     *)

MaxCalls == 3

nonWrapVars == <<xPairs, xNaming, xOpts, xEnv, dirFS, dirPermitted, pc, idx, wk, cur,
                 queue, zip, manifests, mIdx, completed, total, events, thrown, settled,
                 xError, archive, hist, runs>>

\* expose({ detect: detectCards }): the API object's own methods, and the functions an
\* object literal inherits from Object.prototype.
ApiMethods == {"detect"}

ObjectPrototype == {"toString"}

Methods == {"detect", "missing", "toString"}

\* typeof api[methodName] === 'function': a property lookup, own or inherited.
IsFunction(method) == method \in ApiMethods \cup ObjectPrototype

\* What a worker function throws: an Error (message, stack) or any other value.
ThrownPool ==
    {[isError |-> TRUE, text |-> <<"Detection failed">>, stack |-> "at worker"],
     [isError |-> FALSE, text |-> <<"out of memory">>, stack |-> ""]}

NoThrown == [isError |-> FALSE, text |-> <<>>, stack |-> ""]

\* What the invoked function does: return a value or throw.
TargetOutcomes(method) ==
    IF method = "detect"
    THEN {[threw |-> FALSE, value |-> v, thrown |-> NoThrown] : v \in {"cards0", "cards1"}}
         \cup {[threw |-> TRUE, value |-> "", thrown |-> t] : t \in ThrownPool}
    ELSE {[threw |-> FALSE, value |-> "[object Undefined]", thrown |-> NoThrown]}

NoPayload == [message |-> <<>>, hasStack |-> FALSE, stack |-> ""]

serializeError(error) ==
    IF error.isError
    THEN [message |-> error.text, hasStack |-> TRUE, stack |-> error.stack]
    ELSE [message |-> error.text, hasStack |-> FALSE, stack |-> ""]

\* new Error(message) has the stack of the place it was built at, unless replaced.
deserializeError(payload) ==
    [isError |-> TRUE, text |-> payload.message,
     stack |-> IF payload.hasStack THEN payload.stack ELSE "at deserializeError"]

ProxyReleased == [isError |-> TRUE, text |-> <<"Proxy released">>, stack |-> "at releaseProxy"]

NewCall(id, method) ==
    [id |-> id, method |-> method, state |-> "pending", settles |-> 0, by |-> "",
     value |-> "", error |-> NoThrown,
     ran |-> "no", produced |-> [threw |-> FALSE, value |-> "", thrown |-> NoThrown]]

\* call(): a fresh id, a pending entry, one message.
WrapCall(method) ==
    /\ idCounter < MaxCalls
    /\ idCounter' = idCounter + 1
    /\ pending' = pending \cup {idCounter}
    /\ calls' = Append(calls, NewCall(idCounter, method))
    /\ toWorker' = Append(toWorker, [type |-> "call", id |-> idCounter, method |-> method])
    /\ UNCHANGED <<toMain, ep>>

\* expose(): handleMessage up to its first await.
ExposeReceive ==
    /\ toWorker # <<>>
    /\ toWorker' = Tail(toWorker)
    /\ LET msg == Head(toWorker)
       IN IF ~ep.exposed
          THEN UNCHANGED <<toMain, ep, calls>>
          ELSE IF msg.type = "release"
          THEN /\ ep' = [ep EXCEPT !.exposed = FALSE]
               /\ UNCHANGED <<toMain, calls>>
          ELSE IF ~IsFunction(msg.method)
          THEN /\ toMain' = Append(toMain,
                      [type |-> "reject", id |-> msg.id, value |-> "",
                       error |-> [message |-> <<"Unknown method: ", msg.method>>,
                                  hasStack |-> FALSE, stack |-> ""]])
               /\ calls' = [calls EXCEPT ![msg.id + 1].ran = "unknown"]
               /\ UNCHANGED ep
          ELSE /\ ep' = [ep EXCEPT !.running = @ \cup {msg.id}]
               /\ calls' = [calls EXCEPT ![msg.id + 1].ran = "running"]
               /\ UNCHANGED toMain
    /\ UNCHANGED <<idCounter, pending>>

\* expose(): the awaited function returned or threw; the response is posted.
ExposeSettle(id, outcome) ==
    /\ id \in ep.running
    /\ ep' = [ep EXCEPT !.running = @ \ {id}]
    /\ toMain' = Append(toMain,
          IF outcome.threw
          THEN [type |-> "reject", id |-> id, value |-> "",
                error |-> serializeError(outcome.thrown)]
          ELSE [type |-> "resolve", id |-> id, value |-> outcome.value,
                error |-> NoPayload])
    /\ calls' = [calls EXCEPT ![id + 1].ran = "done", ![id + 1].produced = outcome]
    /\ UNCHANGED <<idCounter, pending, toWorker>>

\* wrap(): handleMessage.
WrapReceive ==
    /\ toMain # <<>>
    /\ toMain' = Tail(toMain)
    /\ LET msg == Head(toMain)
       IN IF ~ep.listening \/ msg.id \notin pending
          THEN UNCHANGED <<pending, calls>>
          ELSE /\ pending' = pending \ {msg.id}
               /\ calls' = [calls EXCEPT ![msg.id + 1] =
                     [@ EXCEPT !.state = IF msg.type = "resolve" THEN "resolved"
                                         ELSE "rejected",
                               !.settles = @ + 1,
                               !.by = "response",
                               !.value = msg.value,
                               !.error = IF msg.type = "resolve" THEN NoThrown
                                         ELSE deserializeError(msg.error)]]
    /\ UNCHANGED <<idCounter, toWorker, ep>>

\* Variant: the pending map is cleared without rejecting its entries.
WrapRelease_Silent(terminate) ==
    /\ ep.listening
    /\ toWorker' = IF terminate THEN <<>>
                   ELSE Append(toWorker, [type |-> "release", id |-> 0 - 1, method |-> ""])
    /\ ep' = [ep EXCEPT !.listening = FALSE,
                        !.exposed = IF terminate THEN FALSE ELSE @,
                        !.running = IF terminate THEN {} ELSE @]
    /\ pending' = {}
    /\ UNCHANGED <<idCounter, toMain, calls>>

\* proxy[releaseProxy](): tells the worker, detaches the listener, rejects what is
\* pending. With terminate, worker.terminate() follows at once: the worker stops and
\* what was posted to it is lost.
WrapRelease(terminate) ==
    /\ ep.listening
    /\ toWorker' = IF terminate THEN <<>>
                   ELSE Append(toWorker, [type |-> "release", id |-> 0 - 1, method |-> ""])
    /\ ep' = [ep EXCEPT !.listening = FALSE,
                        !.exposed = IF terminate THEN FALSE ELSE @,
                        !.running = IF terminate THEN {} ELSE @]
    /\ calls' = [i \in 1..Len(calls) |->
                   IF calls[i].id \in pending
                   THEN [calls[i] EXCEPT !.state = "rejected", !.settles = @ + 1,
                                         !.by = "release", !.error = ProxyReleased]
                   ELSE calls[i]]
    /\ pending' = {}
    /\ UNCHANGED <<idCounter, toMain>>

\* A message on the endpoint that answers no pending call: a repeated id or an id the
\* proxy never issued.
StrayMessage(type, id) ==
    /\ ep.strays < 1
    /\ id \notin pending
    /\ id < idCounter \/ id >= MaxCalls
    /\ ep' = [ep EXCEPT !.strays = @ + 1]
    /\ toMain' = Append(toMain, [type |-> type, id |-> id, value |-> "stray",
                                 error |-> NoPayload])
    /\ UNCHANGED <<idCounter, pending, toWorker, calls>>

FrameWrap == UNCHANGED <<nonWrapVars, resolveVars, pairVars, ds, us, cv, nav>>

ProxyCall == \E method \in Methods : WrapCall(method) /\ FrameWrap

WorkerReceive == ExposeReceive /\ FrameWrap

WorkerSettle ==
    \E id \in ep.running : \E outcome \in TargetOutcomes(calls[id + 1].method) :
      ExposeSettle(id, outcome) /\ FrameWrap

HandleMessage == WrapReceive /\ FrameWrap

ReleaseProxy == WrapRelease(FALSE) /\ FrameWrap

Stray == \E type \in {"resolve", "reject"}, id \in 0..MaxCalls : StrayMessage(type, id) /\ FrameWrap

InitWrap ==
    /\ calls = <<>>
    /\ ep = [listening |-> TRUE, exposed |-> TRUE, running |-> {}, strays |-> 0]
    /\ ds = NoStep
    /\ us = NoUpload
    /\ cv = NoRuntime
    /\ nav = NoRouter
    /\ IdleExport
    /\ IdleResolve
    /\ IdlePairs

NextWrap ==
    \/ ProxyCall
    \/ WorkerReceive
    \/ WorkerSettle
    \/ HandleMessage
    \/ ReleaseProxy
    \/ Stray

SpecWrap ==
    InitWrap /\ [][NextWrap]_vars

\* The Error the caller should see for what the worker function threw.
RebuiltFrom(cause, error) ==
    /\ error.isError
    /\ error.text = cause.text
    /\ cause.isError => error.stack = cause.stack

\* C20: calls on one proxy have distinct ids; a promise is settled at most once; a
\* promise settled by a response is resolved with the function's result or rejected
\* with an Error rebuilt from what it threw; a call to a method the exposed API does not
\* have is rejected with an 'Unknown method' error; messages with an unknown id settle
\* nothing.
C20_CallsSettleOnce ==
    \A i \in 1..Len(calls) :
      LET call == calls[i]
      IN /\ \A j \in 1..Len(calls) : calls[j].id = call.id => j = i
         /\ call.settles <= 1
         /\ call.value # "stray"
         /\ (call.by = "response" /\ call.method \in ApiMethods) =>
              /\ call.ran = "done"
              /\ call.produced.threw => (call.state = "rejected"
                                        /\ RebuiltFrom(call.produced.thrown, call.error))
              /\ ~call.produced.threw => (call.state = "resolved"
                                         /\ call.value = call.produced.value)
         /\ (call.by = "response" /\ call.method \notin ApiMethods) =>
              /\ call.state = "rejected"
              /\ call.error.text = <<"Unknown method: ", call.method>>

\* The same without the clause on methods the API does not have.
C20_ExceptInherited ==
    \A i \in 1..Len(calls) :
      LET call == calls[i]
      IN /\ \A j \in 1..Len(calls) : calls[j].id = call.id => j = i
         /\ call.settles <= 1
         /\ call.value # "stray"
         /\ (call.by = "response" /\ call.method \in ApiMethods) =>
              /\ call.ran = "done"
              /\ call.produced.threw => (call.state = "rejected"
                                        /\ RebuiltFrom(call.produced.thrown, call.error))
              /\ ~call.produced.threw => (call.state = "resolved"
                                         /\ call.value = call.produced.value)
         /\ (call.by = "response" /\ call.method \notin ApiMethods \cup ObjectPrototype) =>
              /\ call.state = "rejected"
              /\ call.error.text = <<"Unknown method: ", call.method>>

----------------------------------------------------------------------------
(* DetectSplitStep: one detection worker, a front and a back detection     *)

MaxTasks == 4

FrameStep == UNCHANGED <<nonWrapVars, resolveVars, pairVars, us, cv, nav>>

\* The effect's cleanup: the closure of its previous run is cancelled.
Cancel(tasks, task) ==
    IF task = 0 THEN tasks ELSE [tasks EXCEPT ![task].cancelled = TRUE]

NewTask(side) == [side |-> side, stage |-> "bitmap", id |-> 0 - 1, cancelled |-> FALSE]

\* The component mounts: the worker effect creates the worker and its proxy and sets
\* workerReady; the detection effects, run once with workerReady false, are due again.
MountStep ==
    /\ ~ds.mounted
    /\ ds.tasks = <<>>
    /\ ~ep.listening
    /\ ds' = [ds EXCEPT !.mounted = TRUE, !.workerReady = TRUE,
                        !.frontDue = TRUE, !.backDue = TRUE]
    /\ ep' = [ep EXCEPT !.listening = TRUE, !.exposed = TRUE]
    /\ UNCHANGED <<idCounter, pending, toWorker, toMain, calls>>
    /\ FrameStep

\* The front detection effect, run because one of its dependencies (workerReady,
\* frontDetections.length, frontStatus, ...) changed.
FrontEffect ==
    /\ ds.mounted
    /\ ds.frontDue
    /\ LET cleaned == Cancel(ds.tasks, ds.frontTask)
       IN IF ~ds.workerReady \/ ~ds.hasFront \/ ds.frontStatus = "error"
          THEN ds' = [ds EXCEPT !.tasks = cleaned, !.frontTask = 0, !.frontDue = FALSE]
          ELSE IF ds.frontDetections > 0
          THEN ds' = [ds EXCEPT !.tasks = cleaned, !.frontTask = 0,
                                !.frontStatus = "ready",
                                !.frontDue = (ds.frontStatus # "ready")]
          ELSE /\ Len(ds.tasks) < MaxTasks
               /\ ds' = [ds EXCEPT !.tasks = Append(cleaned, NewTask("front")),
                                   !.frontTask = Len(cleaned) + 1,
                                   !.frontStatus = "pending",
                                   !.frontDue = (ds.frontStatus # "pending")]
    /\ UNCHANGED <<wrapVars, calls, ep>>
    /\ FrameStep

\* The back detection effect: as the front one, without the test for detections.
BackEffect ==
    /\ ds.mounted
    /\ ds.backDue
    /\ LET cleaned == Cancel(ds.tasks, ds.backTask)
       IN IF ~ds.workerReady \/ ~ds.hasBack \/ ds.backStatus = "error"
          THEN ds' = [ds EXCEPT !.tasks = cleaned, !.backTask = 0, !.backDue = FALSE]
          ELSE /\ Len(ds.tasks) < MaxTasks
               /\ ds' = [ds EXCEPT !.tasks = Append(cleaned, NewTask("back")),
                                   !.backTask = Len(cleaned) + 1,
                                   !.backStatus = "pending",
                                   !.backDue = (ds.backStatus # "pending")]
    /\ UNCHANGED <<wrapVars, calls, ep>>
    /\ FrameStep

\* The end of an effect's async function: nothing if cancelled, otherwise the store
\* and the status are set (detections = 0 and status 'error' on failure).
Finish(step, task, ok, detections) ==
    LET t == step.tasks[task]
        done == [step EXCEPT !.tasks[task].stage = "done"]
        status == IF ok THEN "ready" ELSE "error"
        found == IF ok THEN detections ELSE 0
    IN IF t.cancelled THEN done
       ELSE IF t.side = "front"
       THEN [done EXCEPT !.frontStatus = status,
                         !.frontDetections = found,
                         !.frontDue = @ \/ step.frontStatus # status
                                      \/ step.frontDetections # found]
       ELSE [done EXCEPT !.backStatus = status,
                         !.backDue = @ \/ step.backStatus # status]

\* createImageBitmap settles: on success proxy.detect is called.
BitmapReady ==
    \E task \in 1..Len(ds.tasks) : \E ok \in BOOLEAN :
      /\ ds.tasks[task].stage = "bitmap"
      /\ IF ok
         THEN /\ WrapCall("detect")
              /\ ds' = [ds EXCEPT !.tasks[task].stage = "detecting",
                                  !.tasks[task].id = idCounter]
         ELSE /\ ds' = Finish(ds, task, FALSE, 0)
              /\ UNCHANGED <<wrapVars, calls, ep>>
      /\ FrameStep

TaskOf(step, id) ==
    CHOOSE task \in 1..Len(step.tasks) :
      step.tasks[task].id = id /\ step.tasks[task].stage = "detecting"

\* A response arrives: the promise is settled and the awaiting function resumes.
DetectResponse ==
    /\ WrapReceive
    /\ LET msg == Head(toMain)
       IN IF ~ep.listening \/ msg.id \notin pending
          THEN UNCHANGED ds
          ELSE ds' = Finish(ds, TaskOf(ds, msg.id), msg.type = "resolve",
                            IF msg.value = "cards1" THEN 1 ELSE 0)
    /\ FrameStep

\* The component unmounts: every effect is cleaned up, the proxy released, the worker
\* terminated; the functions awaiting a detection are rejected and return.
UnmountStep ==
    /\ ds.mounted
    /\ WrapRelease(TRUE)
    /\ ds' = [ds EXCEPT !.mounted = FALSE, !.workerReady = FALSE,
                        !.frontDue = FALSE, !.backDue = FALSE,
                        !.frontTask = 0, !.backTask = 0,
                        !.tasks = [task \in 1..Len(ds.tasks) |->
                                     [ds.tasks[task] EXCEPT
                                        !.cancelled = TRUE,
                                        !.stage = IF @ = "detecting" THEN "done" ELSE @]]]
    /\ FrameStep

InitDetectStep ==
    /\ \E hasFront \in BOOLEAN, hasBack \in BOOLEAN, known \in {0, 1} :
         ds = [NoStep EXCEPT !.hasFront = hasFront, !.hasBack = hasBack,
                             !.frontDetections = IF hasFront THEN known ELSE 0,
                             !.frontStatus = IF hasFront /\ known > 0 THEN "ready"
                                             ELSE "idle"]
    /\ calls = <<>>
    /\ ep = NoEnds
    /\ us = NoUpload
    /\ cv = NoRuntime
    /\ nav = NoRouter
    /\ IdleExport
    /\ IdleResolve
    /\ IdlePairs

NextDetectStep ==
    \/ MountStep
    \/ FrontEffect
    \/ BackEffect
    \/ BitmapReady
    \/ WorkerReceive
    \/ WorkerSettle
    \/ DetectResponse
    \/ UnmountStep

SpecDetectStep ==
    InitDetectStep /\ [][NextDetectStep]_vars

\* C19: the detection step never has more than one detect request outstanding on its
\* detection worker.
C19_OneDetectOutstanding ==
    Cardinality(pending) <= 1

----------------------------------------------------------------------------
(* The decoder: decodeImage                                                *)

\* MIME types and file names are sequences of tokens: "image/heic" is
\* <<"image", "/", "heic">>, "card.HEIC" is <<"card", ".", "HEIC">>.
ACCEPTED_TYPES_WithText ==
    {<<"image", "/", "jpeg">>, <<"image", "/", "png">>, <<"image", "/", "heic">>,
     <<"image", "/", "heif">>, <<"image", "/", "avif">>, <<"text", "/", "plain">>}

ACCEPTED_TYPES ==
    {<<"image", "/", "jpeg">>, <<"image", "/", "png">>, <<"image", "/", "heic">>,
     <<"image", "/", "heif">>, <<"image", "/", "avif">>}

\* String.prototype.includes on a token sequence.
Includes(text, token) == \E i \in 1..Len(text) : text[i] = token

\* String.prototype.toLowerCase, token by token.
ToLowerCase(text) ==
    [i \in 1..Len(text) |->
       CASE text[i] = "HEIC" -> "heic"
         [] text[i] = "HEIF" -> "heif"
         [] text[i] = "JPG" -> "jpg"
         [] OTHER -> text[i]]

\* String.prototype.endsWith('.' + extension).
EndsWithDot(text, extension) ==
    /\ Len(text) >= 2
    /\ text[Len(text) - 1] = "."
    /\ text[Len(text)] = extension

isHeicLike(file) ==
    IF file.type # <<>>
    THEN Includes(file.type, "heic") \/ Includes(file.type, "heif")
    ELSE LET name == ToLowerCase(file.name)
         IN EndsWithDot(name, "heic") \/ EndsWithDot(name, "heif")

chooseWorkingType(blobType) ==
    IF blobType = <<"image", "/", "png">> THEN <<"image", "/", "png">>
    ELSE <<"image", "/", "jpeg">>

\* `"${file.name}"`, or the generic words when the file has no name.
Label(file, generic) ==
    IF file.name # <<>> THEN <<"\"">> \o file.name \o <<"\"">> ELSE <<generic>>

NoDecodeError == [kind |-> "none", label |-> <<>>]

\* A catch block that converts whatever failed to decode.
DecodeFallback_AlwaysConvert(file, env) ==
    IF ~env.convert
    THEN [ok |-> FALSE, ops |-> <<"heic2any">>, blobType |-> file.type,
          error |-> [kind |-> "convert", label |-> <<>>]]
    ELSE IF ~env.retry
    THEN [ok |-> FALSE, ops |-> <<"heic2any", "createBitmap(converted)">>,
          blobType |-> <<"image", "/", "jpeg">>,
          error |-> [kind |-> "decode", label |-> <<>>]]
    ELSE [ok |-> TRUE, ops |-> <<"heic2any", "createBitmap(converted)">>,
          blobType |-> <<"image", "/", "jpeg">>, error |-> NoDecodeError]

\* The catch block of decodeImage (lines 113-122).
DecodeFallback(file, env) ==
    IF ~isHeicLike(file)
    THEN [ok |-> FALSE, ops |-> <<>>, blobType |-> file.type,
          error |-> [kind |-> "decode", label |-> Label(file, "this image")]]
    ELSE IF ~env.convert
    THEN [ok |-> FALSE, ops |-> <<"heic2any">>, blobType |-> file.type,
          error |-> [kind |-> "convert", label |-> <<>>]]
    ELSE IF ~env.retry
    THEN [ok |-> FALSE, ops |-> <<"heic2any", "createBitmap(converted)">>,
          blobType |-> <<"image", "/", "jpeg">>,
          error |-> [kind |-> "decode", label |-> <<>>]]
    ELSE [ok |-> TRUE, ops |-> <<"heic2any", "createBitmap(converted)">>,
          blobType |-> <<"image", "/", "jpeg">>, error |-> NoDecodeError]

\* decodeImage; env says which of the browser's operations succeed. ops lists the
\* decode and conversion operations attempted, in order.
decodeImage(file, env) ==
    IF file.type \notin ACCEPTED_TYPES /\ ~isHeicLike(file)
    THEN [called |-> TRUE, status |-> "rejected", ops |-> <<>>, workingType |-> <<>>,
          error |-> [kind |-> "unsupported", label |-> Label(file, "the selected image")]]
    ELSE LET decoded == IF env.direct
                        THEN [ok |-> TRUE, ops |-> <<>>, blobType |-> file.type,
                              error |-> NoDecodeError]
                        ELSE DecodeFallback(file, env)
             ops == <<"createBitmap(file)">> \o decoded.ops
         IN IF ~decoded.ok
            THEN [called |-> TRUE, status |-> "rejected", ops |-> ops,
                  workingType |-> <<>>, error |-> decoded.error]
            ELSE IF ~env.clone
            THEN [called |-> TRUE, status |-> "rejected", ops |-> ops,
                  workingType |-> chooseWorkingType(decoded.blobType),
                  error |-> [kind |-> "workingCopy", label |-> <<>>]]
            ELSE [called |-> TRUE, status |-> "resolved", ops |-> ops,
                  workingType |-> chooseWorkingType(decoded.blobType),
                  error |-> NoDecodeError]

FileTypes ==
    ACCEPTED_TYPES \cup
    {<<>>, <<"text", "/", "plain">>, <<"application", "/", "octet-stream">>,
     <<"image", "/", "gif">>, <<"image", "/", "heic", "-sequence">>}

FileNames ==
    {<<>>, <<"card">>, <<"notes", ".", "txt">>, <<"card", ".", "jpg">>,
     <<"card", ".", "png">>, <<"card", ".", "avif">>, <<"card", ".", "heic">>,
     <<"card", ".", "HEIF">>}

InitDecode ==
    /\ \E type \in FileTypes, name \in FileNames :
         \E direct \in BOOLEAN, convert \in BOOLEAN, retry \in BOOLEAN, clone \in BOOLEAN :
           rIn = [file |-> [type |-> type, name |-> name],
                  env |-> [direct |-> direct, convert |-> convert, retry |-> retry,
                           clone |-> clone]]
    /\ rOut = [called |-> FALSE, status |-> "pending", ops |-> <<>>, workingType |-> <<>>,
               error |-> NoDecodeError]
    /\ IdleExport
    /\ IdlePairs
    /\ IdleProxy

DecodeCall ==
    /\ ~rOut.called
    /\ rOut' = decodeImage(rIn.file, rIn.env)
    /\ UNCHANGED rIn
    /\ UNCHANGED <<exportVars, pairVars, proxyVars>>

NextDecode == DecodeCall

SpecDecode ==
    InitDecode /\ [][NextDecode]_vars

\* The image formats of the input constraint, as MIME subtype and as file suffixes.
ImageSubtypes == {"jpeg", "png", "heic", "heif", "avif"}

ImageSuffixes == {"jpg", "png", "avif", "heic", "heif"}

DeclaresImage(file) ==
    /\ Len(file.type) = 3
    /\ file.type[1] = "image"
    /\ file.type[2] = "/"
    /\ file.type[3] \in ImageSubtypes

HasSuffix(file, suffixes) ==
    /\ Len(file.name) >= 2
    /\ file.name[Len(file.name) - 1] = "."
    /\ \E suffix \in suffixes :
         file.name[Len(file.name)] \in {suffix, IF suffix = "heif" THEN "HEIF" ELSE suffix}

Names(label, file) ==
    file.name # <<>> => \E i \in 1..Len(label) : SubSeq(label, i, i + Len(file.name) - 1) = file.name

\* C21: a file that is neither of an accepted type nor HEIC-like is rejected with an
\* unsupported-format error that names the file, and no bitmap decode or HEIC conversion
\* has been attempted.
C21_UnsupportedRejected ==
    (rOut.called /\ ~DeclaresImage(rIn.file) /\ ~isHeicLike(rIn.file)) =>
      /\ rOut.status = "rejected"
      /\ rOut.error.kind = "unsupported"
      /\ Names(rOut.error.label, rIn.file)
      /\ rOut.ops = <<>>

\* A text file is rejected although the browser could have decoded it.
C21_Witness ==
    /\ rOut.called
    /\ rIn.file = [type |-> <<"text", "/", "plain">>, name |-> <<"notes", ".", "txt">>]
    /\ rIn.env.direct
    /\ rOut.error = [kind |-> "unsupported", label |-> <<"\"", "notes", ".", "txt", "\"">>]

\* C22: a file that declares an image type of the list, or has an empty or generic type
\* and a name ending in .jpg, .png, .avif, .heic or .heif, is not rejected as
\* unsupported; a file named .heic/.heif is treated as HEIC-like whatever its type (a
\* failed direct decode is followed by the conversion).
C22_AcceptsDeclaredOrInferable ==
    rOut.called =>
      /\ (\/ DeclaresImage(rIn.file)
          \/ /\ rIn.file.type \in {<<>>, <<"application", "/", "octet-stream">>}
             /\ HasSuffix(rIn.file, ImageSuffixes))
         => rOut.error.kind # "unsupported"
      /\ (HasSuffix(rIn.file, {"heic", "heif"}) /\ rOut.ops # <<>> /\ ~rIn.env.direct)
         => (Len(rOut.ops) >= 2 /\ rOut.ops[2] = "heic2any")

Count(ops, op) == Cardinality({i \in 1..Len(ops) : ops[i] = op})

\* C23: after a failed direct decode a HEIC-like file is converted exactly once and the
\* converted blob is decoded at most once (exactly once if the conversion succeeded); a
\* file that is not HEIC-like fails at once with a decode error naming it, without
\* conversion; after a successful direct decode there is no conversion.
C23_FallbackOnce ==
    (rOut.called /\ rOut.ops # <<>>) =>
      /\ rOut.ops[1] = "createBitmap(file)"
      /\ Count(rOut.ops, "createBitmap(file)") = 1
      /\ rIn.env.direct => rOut.ops = <<"createBitmap(file)">>
      /\ (~rIn.env.direct /\ isHeicLike(rIn.file)) =>
           /\ Count(rOut.ops, "heic2any") = 1
           /\ Count(rOut.ops, "createBitmap(converted)") = (IF rIn.env.convert THEN 1 ELSE 0)
           /\ rIn.env.convert => rOut.ops = <<"createBitmap(file)", "heic2any",
                                              "createBitmap(converted)">>
      /\ (~rIn.env.direct /\ ~isHeicLike(rIn.file)) =>
           /\ rOut.ops = <<"createBitmap(file)">>
           /\ rOut.status = "rejected"
           /\ rOut.error.kind = "decode"
           /\ Names(rOut.error.label, rIn.file)

\* A HEIC file the browser cannot decode is converted, decoded again and accepted.
C23_Witness ==
    /\ rOut.called
    /\ rIn.file.type = <<"image", "/", "heic">>
    /\ ~rIn.env.direct
    /\ rOut.status = "resolved"
    /\ rOut.ops = <<"createBitmap(file)", "heic2any", "createBitmap(converted)">>
    /\ rOut.workingType = <<"image", "/", "jpeg">>

----------------------------------------------------------------------------
(* Side payloads and manifest sides: detection records and their mapping   *)

\* Coordinates and sizes of detections are fixed-point numbers in tenths of a pixel;
\* scales are in tenths; what the mapping functions return is in whole pixels.

\* Math.round(value * scale) for value and scale in tenths.
RoundScaled(value, scale) == (value * scale + 50) \div 100

\* The corners of the rotated rectangle; the angle is given by 5 cos and 5 sin.
buildQuadFromRect(rect) ==
    LET halfWidth == rect.size.width \div 2
        halfHeight == rect.size.height \div 2
        basePoints == << <<0 - halfWidth, 0 - halfHeight>>, <<halfWidth, 0 - halfHeight>>,
                         <<halfWidth, halfHeight>>, <<0 - halfWidth, halfHeight>> >>
    IN orderQuadPoints(
         [i \in 1..4 |->
            << (basePoints[i][1] * rect.cos5 - basePoints[i][2] * rect.sin5) \div 5
                 + rect.center.x,
               (basePoints[i][1] * rect.sin5 + basePoints[i][2] * rect.cos5) \div 5
                 + rect.center.y >>])

\* The record detectCards pushes for a contour (lines 159-172).
DetectionRecord(rotatedRect, boundingRect) ==
    [bbox |-> boundingRect,
     quad |-> buildQuadFromRect(rotatedRect),
     warpSize |-> [width |-> 10 * Max(1, Round(rotatedRect.size.width)),
                   height |-> 10 * Max(1, Round(rotatedRect.size.height))]]

\* commitManualDetection for a dragged rectangle in overlay pixels; scale is
\* working.width / bounds.width in tenths.
ManualCard(rectX, rectY, rectW, rectH, scale) ==
    LET bbox == [x |-> rectX * scale, y |-> rectY * scale,
                 width |-> rectW * scale, height |-> rectH * scale]
    IN [bbox |-> bbox,
        quad |-> << <<bbox.x, bbox.y>>, <<bbox.x + bbox.width, bbox.y>>,
                    <<bbox.x + bbox.width, bbox.y + bbox.height>>,
                    <<bbox.x, bbox.y + bbox.height>> >>,
        warpSize |-> [width |-> 10 * Max(1, Round(bbox.width)),
                      height |-> 10 * Max(1, Round(bbox.height))]]

mapBoundingBox(card, image) ==
    [x |-> Max(0, RoundScaled(card.bbox.x, image.scaleX)),
     y |-> Max(0, RoundScaled(card.bbox.y, image.scaleY)),
     width |-> Max(1, RoundScaled(card.bbox.width, image.scaleX)),
     height |-> Max(1, RoundScaled(card.bbox.height, image.scaleY))]

mapQuad(card, image) ==
    [i \in 1..Len(card.quad) |->
       <<RoundScaled(card.quad[i][1], image.scaleX),
         RoundScaled(card.quad[i][2], image.scaleY)>>]

mapWarpSize(card, image) ==
    [width |-> Max(1, RoundScaled(card.warpSize.width, image.scaleX)),
     height |-> Max(1, RoundScaled(card.warpSize.height, image.scaleY))]

\* The geometry of toWorkerPayload; the manifest side is built from the same three
\* functions (lines 521-534).
toWorkerPayload(card, image) ==
    [bbox |-> mapBoundingBox(card, image),
     quad |-> mapQuad(card, image),
     warpSize |-> mapWarpSize(card, image)]

\* cv.boundingRect of the visible part of a rotated rectangle in a working image of the
\* given size (tenths).
VisibleBounds(quad, width, height) ==
    LET xs == {quad[i][1] : i \in 1..4}
        ys == {quad[i][2] : i \in 1..4}
        left == Max(0, CHOOSE v \in xs : \A o \in xs : v <= o)
        top == Max(0, CHOOSE v \in ys : \A o \in ys : v <= o)
        right == Min(width, CHOOSE v \in xs : \A o \in xs : v >= o)
        bottom == Min(height, CHOOSE v \in ys : \A o \in ys : v >= o)
    IN [x |-> left, y |-> top, width |-> right - left, height |-> bottom - top]

\* What cv.minAreaRect reports for cards in a 40 x 40 working image: upright, turned,
\* and a turned card lying over the left edge, whose visible part is the contour and
\* whose outline is the smallest rectangle around it.
RotatedRects ==
    {[center |-> [x |-> cx, y |-> 200], size |-> [width |-> 200, height |-> 100],
      cos5 |-> angle[1], sin5 |-> angle[2]] :
        cx \in {50, 200}, angle \in {<<5, 0>>, <<3, 4>>, <<4, 3>>}}

AutoCards ==
    {DetectionRecord(rect, VisibleBounds(buildQuadFromRect(rect), 400, 400)) :
       rect \in RotatedRects}

\* Rectangles dragged on the overlay; commitManualDetection drops those under 10 pixels.
ManualCards ==
    {ManualCard(rect[1], rect[2], rect[3], rect[4], scale) :
       rect \in {r \in {0, 15} \X {0, 40} \X {5, 10, 31} \X {5, 10, 31} :
                   r[3] >= 10 /\ r[4] >= 10},
       scale \in {3, 10, 25}}

\* originalWidth / max(1, workingWidth): 1 when the image was not reduced.
Scales == {10, 16, 25}

NoSide == [bbox |-> NoRect, quad |-> <<>>, warpSize |-> [width |-> 0, height |-> 0]]

InitPayload ==
    /\ \E card \in AutoCards \cup ManualCards : \E scaleX \in Scales, scaleY \in Scales :
         rIn = [card |-> card, image |-> [scaleX |-> scaleX, scaleY |-> scaleY]]
    /\ rOut = [called |-> FALSE, payload |-> NoSide, manifest |-> NoSide]
    /\ IdleExport
    /\ IdlePairs
    /\ IdleProxy

PayloadCall ==
    /\ ~rOut.called
    /\ rOut' = [called |-> TRUE,
                payload |-> toWorkerPayload(rIn.card, rIn.image),
                manifest |-> [bbox |-> mapBoundingBox(rIn.card, rIn.image),
                              quad |-> mapQuad(rIn.card, rIn.image),
                              warpSize |-> mapWarpSize(rIn.card, rIn.image)]]
    /\ UNCHANGED rIn
    /\ UNCHANGED <<exportVars, pairVars, proxyVars>>

NextPayload == PayloadCall

SpecPayload ==
    InitPayload /\ [][NextPayload]_vars

SideInRange(side) ==
    /\ side.bbox.x >= 0
    /\ side.bbox.y >= 0
    /\ side.bbox.width >= 1
    /\ side.bbox.height >= 1
    /\ side.warpSize.width >= 1
    /\ side.warpSize.height >= 1
    /\ \A i \in 1..Len(side.quad) : side.quad[i][1] >= 0 /\ side.quad[i][2] >= 0

\* C24: every side payload sent to the renderer and every manifest side has
\* non-negative bounding-box and quad coordinates, and bounding-box and warp sizes of at
\* least 1, for every stored detection and every scale.
C24_SidesInRange ==
    rOut.called => (SideInRange(rOut.payload) /\ SideInRange(rOut.manifest))

----------------------------------------------------------------------------
(* The upload step and the session store (steps/Upload/UploadStep,          *)
(* state/session.ts, components/StepNavigation.tsx)                         *)

\* Files picked in one session; handleFile runs at most this often.
MaxUploads == 3

SESSION_STEPS == <<"files", "detections", "pairs", "naming", "output">>

\* getNextStep and getPreviousStep return null at the ends of the wizard.
NoSuchStep == "null"

IndexOfStep(step) == CHOOSE i \in 1..Len(SESSION_STEPS) : SESSION_STEPS[i] = step

getNextStep(step) ==
    IF IndexOfStep(step) < Len(SESSION_STEPS) THEN SESSION_STEPS[IndexOfStep(step) + 1]
    ELSE NoSuchStep

getPreviousStep(step) ==
    IF IndexOfStep(step) > 1 THEN SESSION_STEPS[IndexOfStep(step) - 1] ELSE NoSuchStep

\* completeStep of the session store: a step is listed once.
completeStep(store, step) ==
    IF step \in Range(store.completedSteps) THEN store
    ELSE [store EXCEPT !.completedSteps = Append(@, step)]

\* toAsset: the id joins name, size and lastModified; a file is named by that id here.
toAsset(file) == file

\* The record setWorkingImage stores for a decoded file.
WorkingInfo(file) == [blob |-> file, originalBlob |-> file]

Drop(map, key) == [k \in (DOMAIN map) \ {key} |-> map[k]]

clearWorkingImages(store) ==
    [store EXCEPT !.workingImages = EmptyMap, !.detectedCards = EmptyMap]

setWorkingImage(store, fileId, info) ==
    [store EXCEPT !.workingImages = Put(@, fileId, info)]

setDetectedCards(store, fileId, cards) ==
    IF Len(cards) = 0
    THEN [store EXCEPT !.detectedCards = Drop(@, fileId), !.adjustments = Drop(@, fileId)]
    ELSE [store EXCEPT !.detectedCards = Put(@, fileId, cards),
                       !.adjustments = IF fileId \in DOMAIN @ THEN @
                                       ELSE Put(@, fileId, [disabledAuto |-> <<>>,
                                                            manual |-> <<>>])]

BothReady(slots) == slots.primary.status = "ready" /\ slots.secondary.status = "ready"

\* The effect that depends on `slots`: it runs after the first render and after every
\* setSlots, which always returns a new object.
SyncSession(slots, store) ==
    IF BothReady(slots)
    THEN setWorkingImage(
           setWorkingImage(
             clearWorkingImages(
               [store EXCEPT !.files = <<toAsset(slots.primary.file),
                                         toAsset(slots.secondary.file)>>]),
             toAsset(slots.primary.file), WorkingInfo(slots.primary.file)),
           toAsset(slots.secondary.file), WorkingInfo(slots.secondary.file))
    ELSE clearWorkingImages([store EXCEPT !.files = <<>>])

SlotKeys == {"primary", "secondary"}

UploadFiles == {FileF, FileG, FileH}

FrameUpload == UNCHANGED <<exportVars, resolveVars, ps, savedPairs, calls, ep, ds, cv, nav>>

\* handleFile up to its await: the slot starts loading under a fresh token.
HandleFile ==
    \E slot \in SlotKeys, file \in UploadFiles :
      /\ us.mounted
      /\ us.tokens < MaxUploads
      /\ LET token == us.tokens + 1
             slots == [us.slots EXCEPT ![slot] = [status |-> "loading", token |-> token,
                                                  file |-> <<>>, error |-> <<>>]]
         IN /\ us' = [us EXCEPT !.tokens = token, !.slots = slots,
                                !.latest[slot] = [token |-> token, file |-> file],
                                !.decoding = @ \cup {[instance |-> us.instance,
                                                      slot |-> slot, token |-> token,
                                                      file |-> file]}]
            /\ sess' = SyncSession(slots, sess)
      /\ FrameUpload

\* decodeImage resolved: the result is kept only if the slot still carries the token.
\* A component that was unmounted meanwhile ignores the setSlots.
DecodeResolved ==
    \E d \in us.decoding :
      /\ IF us.mounted /\ d.instance = us.instance
         THEN LET current == us.slots[d.slot]
                  slots == [us.slots EXCEPT ![d.slot] =
                              IF current.token # d.token THEN current
                              ELSE [status |-> "ready", token |-> d.token,
                                    file |-> d.file, error |-> <<>>]]
              IN /\ us' = [us EXCEPT !.slots = slots, !.decoding = @ \ {d}]
                 /\ sess' = SyncSession(slots, sess)
         ELSE /\ us' = [us EXCEPT !.decoding = @ \ {d}]
              /\ UNCHANGED sess
      /\ FrameUpload

\* decodeImage rejected: the catch block marks the slot, whatever token it carries.
DecodeRejected ==
    \E d \in us.decoding :
      /\ IF us.mounted /\ d.instance = us.instance
         THEN LET slots == [us.slots EXCEPT ![d.slot] = [status |-> "error", token |-> 0,
                                                         file |-> <<>>, error |-> d.file]]
              IN /\ us' = [us EXCEPT !.slots = slots, !.decoding = @ \ {d}]
                 /\ sess' = SyncSession(slots, sess)
         ELSE /\ us' = [us EXCEPT !.decoding = @ \ {d}]
              /\ UNCHANGED sess
      /\ FrameUpload

\* The detection step stores what the detector found for a decoded file.
StoreDetections ==
    \E fileId \in DOMAIN sess.workingImages, cards \in {<<>>, <<"card">>} :
      /\ sess.currentStep = "detections"
      /\ sess' = setDetectedCards(sess, fileId, cards)
      /\ UNCHANGED us
      /\ FrameUpload

\* router.navigate: the route of the step that was left unmounts, the route of `step`
\* mounts. A mounting UploadStep starts from useState's initial slots and runs its
\* effect once.
Navigate(step, store) ==
    IF step = "files"
    THEN /\ us' = [us EXCEPT !.mounted = TRUE, !.instance = @ + 1,
                            !.slots = NoUpload.slots, !.latest = NoUpload.latest]
         /\ sess' = SyncSession(NoUpload.slots, store)
    ELSE /\ us' = [us EXCEPT !.mounted = FALSE]
         /\ sess' = store

\* StepNavigation.handleNext of the step on screen; on the upload step the button is
\* disabled until both slots are ready.
HandleNext ==
    /\ sess.currentStep = "files" => us.mounted /\ BothReady(us.slots)
    /\ getNextStep(sess.currentStep) # NoSuchStep
    /\ Navigate(getNextStep(sess.currentStep),
                [completeStep(sess, sess.currentStep)
                   EXCEPT !.currentStep = getNextStep(sess.currentStep)])
    /\ FrameUpload

\* StepNavigation.handleBack of the step on screen.
HandleBack ==
    /\ getPreviousStep(sess.currentStep) # NoSuchStep
    /\ Navigate(getPreviousStep(sess.currentStep),
                [sess EXCEPT !.currentStep = getPreviousStep(sess.currentStep)])
    /\ FrameUpload

\* The application after its first render: the upload step is on screen, its effect
\* has run against the empty store.
InitUpload ==
    /\ sess = [files |-> <<>>, workingImages |-> EmptyMap, detectedCards |-> EmptyMap,
               adjustments |-> EmptyMap, currentStep |-> "files", completedSteps |-> <<>>]
    /\ us = [NoUpload EXCEPT !.mounted = TRUE, !.instance = 1]
    /\ ps = Unmounted
    /\ savedPairs = <<>>
    /\ calls = <<>>
    /\ ep = NoEnds
    /\ ds = NoStep
    /\ cv = NoRuntime
    /\ nav = NoRouter
    /\ IdleExport
    /\ IdleResolve

NextUpload ==
    \/ HandleFile
    \/ DecodeResolved
    \/ DecodeRejected
    \/ StoreDetections
    \/ HandleNext
    \/ HandleBack

SpecUpload == InitUpload /\ [][NextUpload]_vars

SessionImages == <<sess.files, sess.workingImages, sess.detectedCards>>

\* C25: once both uploaded files are decoded the store holds a working-image record
\* for each of them, and a navigation between wizard steps (the current step changes),
\* going back to the upload step included, leaves session.files, workingImages and
\* detectedCards as they were.
C25_NavigationKeepsSession ==
    /\ [](us.mounted /\ BothReady(us.slots) =>
            {toAsset(us.slots.primary.file), toAsset(us.slots.secondary.file)}
              \subseteq DOMAIN sess.workingImages)
    /\ [][sess.currentStep' # sess.currentStep => SessionImages' = SessionImages]_vars

----------------------------------------------------------------------------
(* Progress events of exportSession                                         *)

HasBackSide(pair) == pair.secondaryFileId # Undefined

ExpectedTotal ==
    (IF xOpts.includeWarped THEN 6 ELSE 5) * Len(xPairs)
    + 5 * Cardinality({i \in 1..Len(xPairs) : HasBackSide(xPairs[i])})
    + (IF xOpts.includeManifests THEN Len(xPairs) ELSE 0)

\* C26: the total of every progress event is the sum over the pairs of 6 (with the
\* warped image) or 5, plus 5 for a pair with a back side, plus one per pair when
\* manifests are requested; it is fixed when the run starts, so every event of the
\* run carries the same total.
C26_TotalIsEstimate ==
    /\ \A i \in 1..Len(events) : events[i].total = ExpectedTotal
    /\ Running => total = ExpectedTotal

C26_Witness ==
    /\ pc = "done"
    /\ settled = "resolved"
    /\ Len(events) > 2
    /\ \E i, j \in 1..Len(xPairs) : HasBackSide(xPairs[i]) /\ ~HasBackSide(xPairs[j])

----------------------------------------------------------------------------
IsWriting(e) == e.stage = "writing"
IsManifestEvent(e) == IsWriting(e) /\ e.message = ManifestName
IsImageEvent(e) == IsWriting(e) /\ e.message # ManifestName

\* C27: the progress events of a run are ordered. The first one is 'initializing' with
\* completed 0; the 'writing' events of a pair come after a 'processing' event of that
\* pair; 'processing' events have strictly increasing pair indices; a 'writing' event
\* has completed one higher than the event before it; manifest 'writing' events come
\* after all image events; 'finalizing' events come after every 'writing' event.
C27_EventsOrdered ==
    /\ events # <<>> => events[1].stage = "initializing" /\ events[1].completed = 0
    /\ \A i \in 1..Len(events) :
         /\ IsWriting(events[i]) =>
              /\ \E j \in 1..(i - 1) : /\ events[j].stage = "processing"
                                       /\ events[j].pairIndex = events[i].pairIndex
              /\ events[i].completed = events[i - 1].completed + 1
         /\ \A j \in 1..(i - 1) :
              /\ events[i].stage = "processing" /\ events[j].stage = "processing"
                   => events[j].pairIndex < events[i].pairIndex
              /\ IsImageEvent(events[i]) => ~IsManifestEvent(events[j])
              /\ IsWriting(events[i]) => events[j].stage # "finalizing"

C27_Witness ==
    /\ pc = "done"
    /\ settled = "resolved"
    /\ ~xOpts.directory
    /\ \E i, j, k \in 1..Len(events) :
         /\ IsImageEvent(events[i]) /\ events[i].pairIndex = 0
         /\ IsImageEvent(events[j]) /\ events[j].pairIndex = 1
         /\ IsManifestEvent(events[k]) /\ events[k].pairIndex = 1
    /\ events[Len(events) - 1].stage = "finalizing"

----------------------------------------------------------------------------
(* From the detector's output to the pairing candidates                     *)
(* (part_010 detectCards, session.setDetectedCards, pairs.tsx)              *)

MaxManual == 2

\* Manual detections the user drew: distinct ids of the form time-random, centres left
\* of, among and right of the automatic ones.
ManualPool ==
    {[id |-> <<"1", "-", "a">>, card |-> [centerNorm |-> <<1, 0>>]],
     [id |-> <<"1", "-", "b">>, card |-> [centerNorm |-> <<5, 0>>]],
     [id |-> <<"2", "-", "c">>, card |-> [centerNorm |-> <<9, 0>>]]}

ManualListsOf(n) ==
    {list \in [1..n -> ManualPool] : \A i, j \in 1..n : i # j => list[i].id # list[j].id}

\* The DetectedCard the detection step stores for a detection.
CardOf(detection) == [centerNorm |-> <<detection.centerNorm, 0>>]

NoCandidates == [stage |-> "idle", detections |-> <<>>, entries |-> <<>>]

InitCandidates ==
    /\ \E n \in 0..MaxContours : \E contours \in [1..n -> ContourPool] :
         \E size \in ImageSizes, strictDelete \in BOOLEAN, k \in 0..MaxManual :
           \E manual \in ManualListsOf(k), disabled \in SUBSET (0..(MaxContours - 1)) :
             rIn = [width |-> size[1], height |-> size[2], contours |-> contours,
                    fault |-> "none", strictDelete |-> strictDelete,
                    disabledAuto |-> SortedSeq(disabled), manual |-> manual]
    /\ rOut = NoCandidates
    /\ IdleExport
    /\ IdlePairs
    /\ IdleProxy

\* The worker's detect call for the photo.
DetectPhoto ==
    /\ rOut.stage = "idle"
    /\ LET result == detectCards(rIn)
       IN rOut' = IF result.threw THEN [rOut EXCEPT !.stage = "failed"]
                  ELSE [rOut EXCEPT !.stage = "detected", !.detections = result.detections]
    /\ UNCHANGED rIn
    /\ UNCHANGED <<exportVars, pairVars, proxyVars>>

\* PairsStep's useMemo over the stored detections and the user's adjustments.
AdjustCards ==
    /\ rOut.stage = "detected"
    /\ LET cards == [i \in 1..Len(rOut.detections) |-> CardOf(rOut.detections[i])]
           adjustments == Put(EmptyMap, FileF, [disabledAuto |-> rIn.disabledAuto,
                                                manual |-> rIn.manual])
       IN rOut' = [rOut EXCEPT !.stage = "adjusted",
                               !.entries = createAdjustedCards(
                                             FileF, WithCards(EmptyMap, FileF, cards),
                                             adjustments)]
    /\ UNCHANGED rIn
    /\ UNCHANGED <<exportVars, pairVars, proxyVars>>

NextCandidates ==
    \/ DetectPhoto
    \/ AdjustCards

SpecCandidates == InitCandidates /\ [][NextCandidates]_vars

AscendingX(list) ==
    \A i, j \in 1..Len(list) : i < j => list[i].centerNorm[1] <= list[j].centerNorm[1]

\* The candidates the claim names: id and card of every enabled automatic detection
\* and of every manual one.
ExpectedCandidates ==
    {[id |-> AutoId(FileF, index), card |-> CardOf(rOut.detections[index + 1]),
      source |-> "auto"] :
       index \in (0..(Len(rOut.detections) - 1)) \ Range(rIn.disabledAuto)}
    \cup {[id |-> ManualId(FileF, rIn.manual[i].id), card |-> rIn.manual[i].card,
           source |-> "manual"] : i \in 1..Len(rIn.manual)}

\* C28: the candidate list holds, each exactly once, the automatic detections whose
\* index is not disabled and all manual detections, and nothing else; it is in
\* ascending centerNorm.x order and numbered 1..n; the detector's own list is in
\* ascending centerNorm.x order too.
C28_CandidatesSorted ==
    /\ rOut.stage \in {"detected", "adjusted"} =>
         AscendingX([i \in 1..Len(rOut.detections) |-> CardOf(rOut.detections[i])])
    /\ rOut.stage = "adjusted" =>
         /\ {[id |-> e.id, card |-> e.card, source |-> e.source] : e \in Range(rOut.entries)}
              = ExpectedCandidates
         /\ Len(rOut.entries) = Cardinality(ExpectedCandidates)
         /\ AscendingX([i \in 1..Len(rOut.entries) |-> rOut.entries[i].card])
         /\ \A i \in 1..Len(rOut.entries) : rOut.entries[i].order = i

\* A detected card is disabled, and a manual card lies left of a remaining automatic one.
C28_Witness ==
    /\ rOut.stage = "adjusted"
    /\ Len(rOut.detections) = 2
    /\ rIn.disabledAuto = <<0>>
    /\ Len(rOut.entries) = 3
    /\ rOut.entries[1].source = "manual"
    /\ rOut.entries[2].source = "auto"

----------------------------------------------------------------------------
(* Distances of the two pairing orders                                      *)

\* A list read from its end.
Backwards(list) == [i \in 1..Len(list) |-> list[Len(list) + 1 - i]]

\* C29: for candidate lists of equal non-zero length both distances are non-negative
\* numbers, reversing the back list twice gives the forwardDistance again, and the
\* forwardDistance of the front list and the reversed back list is the
\* reversedDistance of the two lists.
C29_ReversalRelations ==
    (ps.mounted /\ Len(frontCards) > 0 /\ Len(frontCards) = Len(backCards)) =>
      /\ forwardDistance.finite /\ forwardDistance.value >= 0
      /\ reversedDistance.finite /\ reversedDistance.value >= 0
      /\ Distances(frontCards, Backwards(Backwards(backCards))).forwardDistance
           = forwardDistance
      /\ Distances(frontCards, Backwards(backCards)).forwardDistance = reversedDistance

\* Three cards a side whose two orders differ in distance.
C29_Witness ==
    /\ ps.mounted
    /\ Len(frontCards) = 3
    /\ Len(backCards) = 3
    /\ forwardDistance.value > 0
    /\ forwardDistance # reversedDistance

----------------------------------------------------------------------------
(* Folder names (utils/folders/sanitize.ts)                                 *)

MaxItems == 3

INVALID_CHARACTERS == {"\\", "/", ":", "*", "?", "\"", "<", ">", "|"}

WhitespaceChars == {" ", "\t"}

RECURSIVE StripStart(_, _)
StripStart(text, chars) ==
    IF text # <<>> /\ Head(text) \in chars THEN StripStart(Tail(text), chars) ELSE text

RECURSIVE StripEnd(_, _)
StripEnd(text, chars) ==
    IF text # <<>> /\ text[Len(text)] \in chars
    THEN StripEnd(SubSeq(text, 1, Len(text) - 1), chars)
    ELSE text

\* replace(/[chars]+/g, replacement): every maximal run becomes one replacement.
RECURSIVE ReplaceRuns(_, _, _)
ReplaceRuns(text, chars, replacement) ==
    IF text = <<>> THEN <<>>
    ELSE IF Head(text) \in chars
    THEN <<replacement>> \o ReplaceRuns(StripStart(text, chars), chars, replacement)
    ELSE <<Head(text)>> \o ReplaceRuns(Tail(text), chars, replacement)

\* The names below are plain ASCII, which NFKC normalisation leaves as it is.
sanitizeFolderSegment(value) ==
    IF value = <<>> THEN <<>>
    ELSE LET valid == SelectSeq(value, LAMBDA c : c \notin INVALID_CHARACTERS)
             trimmed == StripEnd(StripStart(valid, WhitespaceChars), WhitespaceChars)
             underscored == ReplaceRuns(trimmed, WhitespaceChars, "_")
             collapsed == ReplaceRuns(underscored, {"_"}, "_")
         IN StripEnd(StripStart(collapsed, {"_"}), {"_"})

LowerChar(c) == CASE c = "F" -> "f" [] c = "O" -> "o" [] c = "S" -> "s" [] OTHER -> c

LowerCase(text) == [i \in 1..Len(text) |-> LowerChar(text[i])]

\* The second items.map: `counts` is threaded through the items in order.
RECURSIVE NameItems(_, _, _)
NameItems(sanitized, counts, results) ==
    IF sanitized = <<>> THEN results
    ELSE LET item == Head(sanitized)
         IN IF item.cardBase = <<>>
            THEN NameItems(Tail(sanitized), counts,
                           Append(results, [id |-> item.id, setFolder |-> item.setFolder,
                                            cardFolder |-> <<>>,
                                            fullPath |-> item.setFolder]))
            ELSE LET key == LowerCase(item.setFolder \o <<"_", "_">> \o item.cardBase)
                     count == IF key \in DOMAIN counts THEN counts[key] ELSE 0
                     suffix == IF count = 0 THEN <<>>
                               ELSE <<"_">> \o NumberToString(count + 1)
                     cardFolder == item.cardBase \o suffix
                 IN NameItems(Tail(sanitized), Put(counts, key, count + 1),
                              Append(results,
                                     [id |-> item.id, setFolder |-> item.setFolder,
                                      cardFolder |-> cardFolder,
                                      fullPath |-> IF item.setFolder # <<>>
                                                   THEN item.setFolder \o <<"/">> \o cardFolder
                                                   ELSE cardFolder]))

generateUniqueFolderNames(items) ==
    NameItems([i \in 1..Len(items) |->
                 [id |-> items[i].id,
                  setFolder |-> sanitizeFolderSegment(items[i].setName),
                  cardBase |-> sanitizeFolderSegment(items[i].cardName)]],
              EmptyMap, <<>>)

\* Card and set names a user may type.
CardNames ==
    {<<"F", "o">>, <<"f", "o">>, <<"F", "o", "_", "2">>, <<"F", "o", " ", "2">>,
     <<" ", "F", "/", "o", "_", "_">>, <<" ">>, <<>>}

SetNames == {<<>>, <<"S">>, <<"s", ":">>}

InitFolders ==
    /\ \E n \in 1..MaxItems :
         \E cards \in [1..n -> CardNames], sets \in [1..n -> SetNames] :
           rIn = [i \in 1..n |-> [id |-> i, setName |-> sets[i], cardName |-> cards[i]]]
    /\ rOut = [called |-> FALSE, results |-> <<>>]
    /\ IdleExport
    /\ IdlePairs
    /\ IdleProxy

GenerateCall ==
    /\ ~rOut.called
    /\ rOut' = [called |-> TRUE, results |-> generateUniqueFolderNames(rIn)]
    /\ UNCHANGED rIn
    /\ UNCHANGED <<exportVars, pairVars, proxyVars>>

NextFolders == GenerateCall

SpecFolders == InitFolders /\ [][NextFolders]_vars

\* C30: the items whose sanitized card name is not empty get pairwise distinct full
\* paths, compared without regard to case, also when a card name already ends in a
\* suffix the function generates.
C30_DistinctPaths ==
    rOut.called =>
      \A i, j \in 1..Len(rOut.results) :
        (/\ i # j
         /\ sanitizeFolderSegment(rIn[i].cardName) # <<>>
         /\ sanitizeFolderSegment(rIn[j].cardName) # <<>>)
          => LowerCase(rOut.results[i].fullPath) # LowerCase(rOut.results[j].fullPath)

----------------------------------------------------------------------------
(* Quiescence of the detection step                                         *)

\* The step on screen with a decoded front photo and no stored detections.
InitQuiesce ==
    /\ \E hasBack \in BOOLEAN :
         ds = [NoStep EXCEPT !.hasFront = TRUE, !.hasBack = hasBack]
    /\ calls = <<>>
    /\ ep = NoEnds
    /\ us = NoUpload
    /\ cv = NoRuntime
    /\ nav = NoRouter
    /\ IdleExport
    /\ IdleResolve
    /\ IdlePairs

\* The files stay as they are and the step stays on screen.
NextQuiesce ==
    \/ MountStep
    \/ FrontEffect
    \/ BackEffect
    \/ BitmapReady
    \/ WorkerReceive
    \/ WorkerSettle
    \/ DetectResponse

\* React runs a due effect after the commit, the browser settles createImageBitmap,
\* and the worker and the main thread handle every message posted to them.
SpecQuiesce ==
    /\ InitQuiesce
    /\ [][NextQuiesce]_vars
    /\ WF_vars(MountStep)
    /\ WF_vars(FrontEffect)
    /\ WF_vars(BackEffect)
    /\ WF_vars(BitmapReady)
    /\ WF_vars(WorkerReceive)
    /\ WF_vars(WorkerSettle)
    /\ WF_vars(DetectResponse)

SideSettled(has, status) == ~has \/ status \in {"ready", "error"}

\* Both sides are settled, no effect is due to run and no request is under way.
Quiet ==
    /\ SideSettled(ds.hasFront, ds.frontStatus)
    /\ SideSettled(ds.hasBack, ds.backStatus)
    /\ ~ds.frontDue
    /\ ~ds.backDue
    /\ pending = {}
    /\ \A task \in 1..Len(ds.tasks) : ds.tasks[task].stage = "done"

\* A detection of the back photo is started in this step.
BackRequested ==
    /\ Len(ds'.tasks) > Len(ds.tasks)
    /\ ds'.tasks[Len(ds'.tasks)].side = "back"

\* C31: for fixed files the detection step quiesces: from some point on each side's
\* status stays 'ready' or 'error' and no detect request is issued or due any more;
\* for the back photo no request is issued once a detection of it has succeeded
\* (its status is 'ready').
C31_DetectionQuiesces ==
    /\ <>[]Quiet
    /\ [][BackRequested => ds.backStatus # "ready"]_vars

----------------------------------------------------------------------------
(* Two files chosen for one upload slot                                     *)

\* A decode of this component is still awaited for the slot.
Awaited(slot) == \E d \in us.decoding : d.instance = us.instance /\ d.slot = slot

ShowsLatest(slot) ==
    LET state == us.slots[slot]
        last == us.latest[slot]
    IN \/ state.status = "ready" /\ state.token = last.token /\ state.file = last.file
       \/ state.status = "error" /\ state.error = last.file

\* C32: when a second file is chosen for a slot, the slot ends in the state of that
\* file (ready with its image or error with its error) in whatever order the two
\* decodes finish; the result of the earlier file's decode, success or failure,
\* leaves the slot as it is.
C32_LaterFileWins ==
    /\ [](\A slot \in SlotKeys :
            (us.mounted /\ us.latest[slot].token > 0 /\ ~Awaited(slot))
              => ShowsLatest(slot))
    /\ [][\A d \in us.decoding :
            (/\ d \notin us'.decoding
             /\ us.mounted
             /\ d.instance = us.instance
             /\ d.token < us.latest[d.slot].token)
              => us'.slots[d.slot] = us.slots[d.slot]]_vars

----------------------------------------------------------------------------
(* Releasing a proxy                                                        *)

\* This step posts a 'release' message.
Releases ==
    /\ Len(toWorker') = Len(toWorker) + 1
    /\ toWorker'[Len(toWorker')].type = "release"
    /\ SubSeq(toWorker', 1, Len(toWorker)) = toWorker

\* C33: releasing a proxy rejects every pending call with 'Proxy released', empties
\* the pending map, posts one 'release' message and detaches the listener; afterwards
\* a response settles no promise, and once the exposed side has processed the
\* 'release' message it starts handling no call.
C33_ReleaseSettlesPending ==
    /\ [][Releases =>
            /\ ~ep'.listening
            /\ pending' = {}
            /\ Len(calls') = Len(calls)
            /\ \A i \in 1..Len(calls) :
                 IF calls[i].id \in pending
                 THEN /\ calls'[i].state = "rejected"
                      /\ calls'[i].error.text = <<"Proxy released">>
                      /\ calls'[i].settles = 1
                 ELSE calls'[i] = calls[i]]_vars
    /\ [][~ep.listening =>
            \A i \in 1..Len(calls) : /\ calls'[i].settles = calls[i].settles
                                     /\ calls'[i].state = calls[i].state]_vars
    /\ [][~ep.exposed =>
            \A i \in 1..Len(calls) :
              calls'[i].ran # calls[i].ran => calls[i].ran = "running"]_vars

\* A call was rejected by the release, and the worker's answer to it has arrived and
\* been dropped; the worker has processed the release.
C33_Witness ==
    /\ ~ep.listening
    /\ ~ep.exposed
    /\ toMain = <<>>
    /\ \E i \in 1..Len(calls) : calls[i].by = "release" /\ calls[i].ran = "done"
    /\ \E i \in 1..Len(calls) : calls[i].ran = "no" /\ toWorker = <<>>

----------------------------------------------------------------------------
(* ensureOpenCv (workers/opencv.ts and the detection worker)                *)

MaxEnsure == 4

FrameRuntime == UNCHANGED <<exportVars, resolveVars, pairVars, calls, ep, ds, us, nav>>

\* Variant: the failed promise is kept.
CatchHandler_KeepsPromise(runtime, load) ==
    [runtime EXCEPT !.loads[load].stage = "rejected"]

\* .catch((error) => { initPromise = null; throw error; })
CatchHandler(runtime, load) ==
    [runtime EXCEPT !.initPromise = 0, !.loads[load].stage = "rejected"]

\* loadOpenCv() up to its first await: with self.cv set it returns the runtime.
StartLoad(runtime) ==
    [runtime EXCEPT !.loads = Append(@, [stage |-> IF runtime.hasCv THEN "fulfilled"
                                                  ELSE "fetching"]),
                    !.initPromise = Len(runtime.loads) + 1]

\* ensureOpenCv(): the caller gets initPromise, created first if there is none.
EnsureCall ==
    /\ Len(cv.got) < MaxEnsure
    /\ LET started == IF cv.initPromise = 0 THEN StartLoad(cv) ELSE cv
       IN cv' = [started EXCEPT !.got = Append(@, started.initPromise),
                                !.seen = Append(@, "waiting")]
    /\ FrameRuntime

\* fetch settles: the script text is there, or the load throws.
FetchSettles ==
    \E load \in 1..Len(cv.loads), ok \in BOOLEAN :
      /\ cv.loads[load].stage = "fetching"
      /\ cv' = [cv EXCEPT !.loads[load].stage = IF ok THEN "evaluating" ELSE "failed"]
      /\ FrameRuntime

\* The script is evaluated: onRuntimeInitialized finds self.cv, or finds none, or the
\* evaluation throws (having set self.cv or not).
ScriptRuns ==
    \E load \in 1..Len(cv.loads) :
      \E outcome \in {"initialised", "noRuntime", "throws", "throwsWithCv"} :
        /\ cv.loads[load].stage = "evaluating"
        /\ cv' = [cv EXCEPT !.loads[load].stage = IF outcome = "initialised" THEN "fulfilled"
                                                   ELSE "failed",
                            !.hasCv = outcome \in {"initialised", "throwsWithCv"}]
        /\ FrameRuntime

\* The rejection of loadOpenCv's promise reaches the catch handler.
CatchRuns ==
    \E load \in 1..Len(cv.loads) :
      /\ cv.loads[load].stage = "failed"
      /\ cv' = CatchHandler(cv, load)
      /\ FrameRuntime

\* A caller awaiting the promise it got resumes with the runtime or the error.
CallerResumes ==
    \E caller \in 1..Len(cv.got) :
      /\ cv.seen[caller] = "waiting"
      /\ cv.loads[cv.got[caller]].stage \in {"fulfilled", "rejected"}
      /\ cv' = [cv EXCEPT !.seen[caller] =
                  IF cv.loads[cv.got[caller]].stage = "fulfilled" THEN "runtime" ELSE "error"]
      /\ FrameRuntime

InitRuntime ==
    /\ cv = NoRuntime
    /\ nav = NoRouter
    /\ calls = <<>>
    /\ ep = NoEnds
    /\ ds = NoStep
    /\ us = NoUpload
    /\ IdleExport
    /\ IdleResolve
    /\ IdlePairs

NextRuntime ==
    \/ EnsureCall
    \/ FetchSettles
    \/ ScriptRuns
    \/ CatchRuns
    \/ CallerResumes

SpecRuntime == InitRuntime /\ [][NextRuntime]_vars

InProgress(load) == cv.loads[load].stage \in {"fetching", "evaluating", "failed"}

LastStage == IF cv.loads = <<>> THEN "none" ELSE cv.loads[Len(cv.loads)].stage

\* C34: ensureOpenCv is single-flight with retry. At most one load is in progress, and
\* a call made meanwhile gets its promise and starts no load; after a load succeeded
\* every call gets that runtime and no load follows; a failed load fails every caller
\* that got its promise, and the next call starts exactly one fresh load.
C34_SingleFlight ==
    /\ [](/\ Cardinality({load \in 1..Len(cv.loads) : InProgress(load)}) <= 1
          /\ \A load \in 1..Len(cv.loads) :
               cv.loads[load].stage = "fulfilled" => load = Len(cv.loads)
          /\ \A caller \in 1..Len(cv.got) :
               /\ cv.seen[caller] = "runtime" => cv.loads[cv.got[caller]].stage = "fulfilled"
               /\ cv.seen[caller] = "error" => cv.loads[cv.got[caller]].stage = "rejected")
    /\ [][Len(cv.got') = Len(cv.got) + 1 =>
            IF LastStage \in {"none", "rejected"}
            THEN /\ Len(cv.loads') = Len(cv.loads) + 1
                 /\ cv.got'[Len(cv.got')] = Len(cv.loads')
            ELSE /\ cv.loads' = cv.loads
                 /\ cv.got'[Len(cv.got')] = Len(cv.loads)]_vars

\* Two callers shared a load that failed and saw its error; a later call started the
\* second load, which succeeded, and a call after that got the same runtime.
C34_Witness ==
    /\ Len(cv.loads) = 2
    /\ cv.got = <<1, 1, 2, 2>>
    /\ cv.seen = <<"error", "error", "runtime", "runtime">>

----------------------------------------------------------------------------
----------------------------------------------------------------------------
(* The wizard: guarded routes, StepNavigation, the naming and output steps  *)
(* (routes/*.tsx, components/StepNavigation.tsx, components/ShellLayout.tsx, *)
(* state/session.ts, steps/PickOutput/PickOutputStep.tsx)                   *)

\* Times the upload route is entered in one session.
MaxVisits == 2

\* Exports started in one session.
MaxExports == 1

\* A guard that lets every route load.
canAccessStep_Open(store, step) == TRUE

canAccessStep(store, step) ==
    IF IndexOfStep(step) <= 1 THEN TRUE
    ELSE getPreviousStep(step) \in Range(store.completedSteps)

getFirstAccessibleStep(store) ==
    LET open == {i \in 1..Len(SESSION_STEPS) :
                   SESSION_STEPS[i] \notin Range(store.completedSteps)}
    IN IF open = {} THEN SESSION_STEPS[Len(SESSION_STEPS)]
       ELSE SESSION_STEPS[CHOOSE i \in open : \A j \in open : i <= j]

\* beforeLoad of a route: the step that ends up on screen.
RouteFor(store, step) ==
    IF canAccessStep(store, step) THEN step ELSE getFirstAccessibleStep(store)

\* normalizeRecords of the naming step: one record per pair, the record of a pair id
\* that already has one is kept. A record is represented by whether both of its names
\* are non-empty; a default record has empty names.
normalizeRecords(pairs, records) ==
    [id \in Ids(pairs) |-> IF id \in DOMAIN records THEN records[id] ELSE FALSE]

allValid(records) == \A id \in DOMAIN records : records[id]

pairsReady(pairs, naming, workingImages) ==
    /\ Len(pairs) > 0
    /\ \A i \in 1..Len(pairs) :
         /\ pairs[i].id \in DOMAIN naming
         /\ pairs[i].primaryFileId \in DOMAIN workingImages

\* A route is loaded: its guard picks the step, the component of the step that was on
\* screen unmounts and the new one mounts and runs its effects, ShellLayout's effect
\* aligns currentStep with the path. `pairs` is session.pairs at that moment.
Show(step, store, pairs) ==
    LET target == RouteFor(store, step)
        shown == [store EXCEPT !.currentStep = target]
    IN /\ target = "files" => us.instance < MaxVisits
       /\ Navigate(target, shown)
       /\ ps' = IF target = "pairs" THEN PairsMounted(shown) ELSE Unmounted
       /\ savedPairs' = IF target = "pairs" /\ Len(FrontCardsOf(shown)) = 0
                        THEN <<>> ELSE pairs
       /\ nav' = [nav EXCEPT !.route = target,
                             !.naming = IF target = "naming"
                                        THEN normalizeRecords(pairs, @) ELSE @]

FrameWizard == UNCHANGED <<exportVars, resolveVars, calls, ep, ds, cv>>

\* What the detector reports for a photo.
DetectionsFound == {<<>>, <<FrontCard(1)>>, <<FrontCard(1), FrontCard(2)>>}

\* The detection step stores the result of a run for the front photo while it has no
\* detections, and for the back photo whenever its effect runs; a failed run stores
\* an empty list.
DetectionStored ==
    \E fileId \in Range(sess.files), cards \in DetectionsFound :
      /\ nav.route = "detections"
      /\ fileId \in DOMAIN sess.workingImages
      /\ fileId = frontFile => fileId \notin DOMAIN sess.detectedCards
      /\ sess' = setDetectedCards(sess, fileId, cards)
      /\ UNCHANGED <<ps, savedPairs, us, nav>>
      /\ FrameWizard

\* The toggle of a detection on the detection step.
DetectionToggled ==
    /\ nav.route = "detections"
    /\ toggleDetectionActive

\* The user completes the names of one pair on the naming step.
NamesTyped ==
    \E id \in DOMAIN nav.naming :
      /\ nav.route = "naming"
      /\ ~nav.naming[id]
      /\ nav' = [nav EXCEPT !.naming[id] = TRUE]
      /\ UNCHANGED <<sess, ps, savedPairs, us>>
      /\ FrameWizard

\* nextDisabled of the StepNavigation of each step but the last.
NextEnabled(step) ==
    CASE step = "files" -> us.mounted /\ BothReady(us.slots)
      [] step = "detections" ->
           /\ frontFile \in DOMAIN sess.detectedCards
           /\ Len(frontCards) + Len(backCards) > 0
      [] step = "pairs" -> Len(frontCards) > 0
      [] step = "naming" -> allValid(nav.naming) /\ Len(savedPairs) > 0
      [] OTHER -> FALSE

\* StepNavigation.handleNext of a step with a next step; onNext is handleSavePairs on
\* the pairing step and absent on the others.
WizardNext ==
    LET step == nav.route
        next == getNextStep(step)
        pairs == IF step = "pairs"
                 THEN NextPairs(frontCards, backCards, ps.assignments, ps.reverseBacks)
                 ELSE savedPairs
    IN /\ next # NoSuchStep
       /\ NextEnabled(step)
       /\ Show(next, [completeStep(sess, step) EXCEPT !.currentStep = next], pairs)
       /\ FrameWizard

\* StepNavigation.handleBack.
WizardBack ==
    LET previous == getPreviousStep(nav.route)
    IN /\ previous # NoSuchStep
       /\ Show(previous, [sess EXCEPT !.currentStep = previous], savedPairs)
       /\ FrameWizard

\* The browser's history buttons load the route of another step.
HistoryLoad ==
    \E step \in Range(SESSION_STEPS) \ {nav.route} :
      /\ Show(step, sess, savedPairs)
      /\ FrameWizard

\* Observation of an export call: the detection ids among `pairs` that resolve to a
\* card of the store although the pairing step would not offer them as candidates.
Exported(pairs) ==
    {<<pairs[i].primaryFileId, pairs[i].primaryDetectionId>> : i \in 1..Len(pairs)}
      \cup {<<pairs[i].secondaryFileId, pairs[i].secondaryDetectionId>> :
              i \in {j \in 1..Len(pairs) : pairs[j].secondaryDetectionId # Undefined}}

InactiveIn(pairs, store) ==
    {e \in Exported(pairs) :
       /\ resolveDetectedCard(e[1], e[2], store.detectedCards, store.adjustments) # NullCard
       /\ e[2] \notin Ids(createAdjustedCards(e[1], store.detectedCards,
                                              store.adjustments))}

\* handleNext of the output step up to its await: handleExport passes the session to
\* exportSession.
ExportStarted ==
    /\ nav.route = "output"
    /\ pairsReady(savedPairs, nav.naming, sess.workingImages)
    /\ Len(nav.exports) < MaxExports
    /\ nav' = [nav EXCEPT !.exports =
                 Append(@, [inactive |-> InactiveIn(savedPairs, sess),
                            result |-> "running"])]
    /\ UNCHANGED <<sess, ps, savedPairs, us>>
    /\ FrameWizard

\* exportSession settled: handleExport returns true or false, and handleNext completes
\* the step unless it was false. There is no step after the output step.
ExportSettled ==
    \E ok \in BOOLEAN :
      /\ nav.exports # <<>>
      /\ nav.exports[Len(nav.exports)].result = "running"
      /\ nav' = [nav EXCEPT !.exports[Len(nav.exports)].result =
                              IF ok THEN "success" ELSE "error"]
      /\ sess' = IF ok THEN completeStep(sess, "output") ELSE sess
      /\ UNCHANGED <<ps, savedPairs, us>>
      /\ FrameWizard

\* The upload step with both photos picked and decoded (SpecUpload describes how it
\* gets there).
InitWizard ==
    /\ sess = [files |-> <<FileF, FileG>>,
               workingImages |-> Put(Put(EmptyMap, FileF, WorkingInfo(FileF)),
                                     FileG, WorkingInfo(FileG)),
               detectedCards |-> EmptyMap, adjustments |-> EmptyMap,
               currentStep |-> "files", completedSteps |-> <<>>]
    /\ us = [NoUpload EXCEPT
               !.mounted = TRUE, !.instance = 1, !.tokens = 2,
               !.slots = [primary |-> [status |-> "ready", token |-> 1,
                                       file |-> FileF, error |-> <<>>],
                          secondary |-> [status |-> "ready", token |-> 2,
                                         file |-> FileG, error |-> <<>>]],
               !.latest = [primary |-> [token |-> 1, file |-> FileF],
                           secondary |-> [token |-> 2, file |-> FileG]]]
    /\ nav = NoRouter
    /\ ps = Unmounted
    /\ savedPairs = <<>>
    /\ calls = <<>>
    /\ ep = NoEnds
    /\ ds = NoStep
    /\ cv = NoRuntime
    /\ IdleExport
    /\ IdleResolve

NextWizard ==
    \/ DetectionStored
    \/ DetectionToggled
    \/ NamesTyped
    \/ WizardNext
    \/ WizardBack
    \/ HistoryLoad
    \/ ExportStarted
    \/ ExportSettled

SpecWizard == InitWizard /\ [][NextWizard]_vars

\* C35: whenever exportSession is started from the output step, every pair of the
\* session refers to detections that are active at that moment; an automatic
\* detection the user deactivated after the pairs were saved is never exported.
C35_ExportsActiveOnly ==
    \A n \in 1..Len(nav.exports) : nav.exports[n].inactive = {}

Completed == Range(sess.completedSteps)

\* C39: under any sequence of Next, Back and guarded route loads, completedSteps has
\* no duplicates and is prefix-closed in wizard order; 'output' is completed only
\* after an export that succeeded; the route on screen is one whose preceding step is
\* completed; and getFirstAccessibleStep, the target of a redirect, is accessible.
C39_CompletedStepsInOrder ==
    /\ \A i, j \in 1..Len(sess.completedSteps) :
         i # j => sess.completedSteps[i] # sess.completedSteps[j]
    /\ \A step \in Completed :
         getPreviousStep(step) # NoSuchStep => getPreviousStep(step) \in Completed
    /\ "output" \in Completed =>
         \E n \in 1..Len(nav.exports) : nav.exports[n].result = "success"
    /\ canAccessStep(sess, nav.route)
    /\ canAccessStep(sess, getFirstAccessibleStep(sess))

\* The whole wizard was completed and a later load of the pairing route, whose
\* preceding step is completed, was let through.
C39_Witness ==
    /\ Len(sess.completedSteps) = Len(SESSION_STEPS)
    /\ nav.route = "pairs"

----------------------------------------------------------------------------
(* Relative paths of one export run                                         *)

\* C36: within one export run no relative path (folder path plus file name,
\* MANIFEST.json included) is written twice: every file written so far, to the folder
\* or to the archive, is at a path of its own, so none was replaced by a later pair's
\* file of the same name.
C36_NoPathWrittenTwice ==
    Len(SelectSeq(events, IsWriting)) = Cardinality(DOMAIN hist.written)

----------------------------------------------------------------------------
(* The user's adjustments in the session store (state/session.ts)           *)

NoAdjustment == [disabledAuto |-> <<>>, manual |-> <<>>]

AdjustmentOf(store, fileId) ==
    IF fileId \in DOMAIN store.adjustments THEN store.adjustments[fileId] ELSE NoAdjustment

\* manualId joins Date.now() and a random number: an id no entry of the file carries.
addManualDetection(store, fileId, manualId, card) ==
    [store EXCEPT !.adjustments =
       Put(@, fileId, [AdjustmentOf(store, fileId) EXCEPT
                         !.manual = Append(@, [id |-> manualId, card |-> card])])]

removeManualDetection(store, fileId, manualId) ==
    IF fileId \notin DOMAIN store.adjustments THEN store
    ELSE LET Other(item) == item.id # manualId
         IN [store EXCEPT !.adjustments[fileId].manual = SelectSeq(@, Other)]

\* reset: the initial state.
reset(store) ==
    [store EXCEPT !.files = <<>>, !.workingImages = EmptyMap, !.detectedCards = EmptyMap,
                  !.adjustments = EmptyMap, !.currentStep = "files",
                  !.completedSteps = <<>>]

\* The slots of an upload step with both photos decoded.
PickedSlots ==
    [primary |-> [status |-> "ready", token |-> 1, file |-> FileF, error |-> <<>>],
     secondary |-> [status |-> "ready", token |-> 2, file |-> FileG, error |-> <<>>]]

FrameAdjust == UNCHANGED <<exportVars, pairVars, proxyVars>> /\ UNCHANGED rIn

\* The store operations, made while the pairing step is not on screen, differ in the
\* store only; rOut names the last one.
Did(op, store) ==
    /\ ~ps.mounted
    /\ sess' = store
    /\ rOut' = [op |-> op]
    /\ UNCHANGED <<rIn, ps, savedPairs>>
    /\ UNCHANGED <<exportVars, proxyVars>>

\* A detection run of a photo ends: the cards found, or none after an empty or failed
\* run, are stored.
DetectionRun ==
    \E fileId \in Range(sess.files), cards \in DetectionsFound :
      Did("detect", setDetectedCards(sess, fileId, cards))

\* The user draws a card on the front photo.
ManualAdded ==
    \E entry \in ManualPool :
      /\ sess.files # <<>>
      /\ Len(AdjustmentOf(sess, frontFile).manual) < MaxManual
      /\ entry.id \notin Ids(AdjustmentOf(sess, frontFile).manual)
      /\ Did("add", addManualDetection(sess, frontFile, entry.id, entry.card))

ManualRemoved ==
    \E manualId \in Ids(AdjustmentOf(sess, frontFile).manual) :
      /\ sess.files # <<>>
      /\ Did("remove", removeManualDetection(sess, frontFile, manualId))

AutoToggled ==
    \E fileId \in Range(sess.files) \cap DOMAIN sess.detectedCards :
      \E index \in 0..(Len(sess.detectedCards[fileId]) - 1) :
        Did("toggle", ToggleIn(sess, fileId, index))

\* The upload step's effect after new photos were picked.
FilesReplaced == Did("files", SyncSession(PickedSlots, sess))

SessionReset == Did("reset", reset(sess))

InitAdjust ==
    /\ sess = [files |-> <<FileF, FileG>>,
               workingImages |-> Put(Put(EmptyMap, FileF, WorkingInfo(FileF)),
                                     FileG, WorkingInfo(FileG)),
               detectedCards |-> EmptyMap, adjustments |-> EmptyMap,
               currentStep |-> "files", completedSteps |-> <<>>]
    /\ rIn = <<>>
    /\ rOut = [op |-> "none"]
    /\ ps = Unmounted
    /\ savedPairs = <<>>
    /\ IdleExport
    /\ IdleProxy

NextAdjust ==
    \/ DetectionRun
    \/ ManualAdded
    \/ ManualRemoved
    \/ AutoToggled
    \/ FilesReplaced
    \/ SessionReset
    \/ Mount
    \/ handleSavePairs
    \/ Unmount

SpecAdjust == InitAdjust /\ [][NextAdjust]_vars

\* Every manual detection and every deactivated index of `before` is in `after`.
AdjustmentsKept(before, after) ==
    \A fileId \in DOMAIN before.adjustments :
      /\ Range(before.adjustments[fileId].manual)
           \subseteq Range(AdjustmentOf(after, fileId).manual)
      /\ Range(before.adjustments[fileId].disabledAuto)
           \subseteq Range(AdjustmentOf(after, fileId).disabledAuto)

\* C37: a manual detection added for a file stays in that file's adjustment list and
\* a deactivated index stays deactivated over every step that is not a removal, a
\* toggle, a replacement of the files or a reset; a detection run that ends for the
\* file, with cards, without cards or with a failure, does not discard them.
C37_DetectionKeepsAdjustments ==
    [][rOut'.op \in {"detect", "add"} => AdjustmentsKept(sess, sess')]_vars

Resolved(fileId, detectionId) ==
    resolveDetectedCard(fileId, detectionId, sess.detectedCards, sess.adjustments)

\* The card of the candidate with the given id.
CardWithId(entries, id) ==
    LET hits == {i \in 1..Len(entries) : entries[i].id = id}
    IN IF hits = {} THEN NullCard ELSE entries[CHOOSE i \in hits : TRUE].card

\* C38: every id createAdjustedCards emits for a candidate of a file resolves through
\* resolveDetectedCard, with the same fileId and the same store, to that candidate's
\* card, for automatic and for manual candidates; so each pair handleSavePairs has
\* just saved resolves to the cards of the candidates that were paired.
C38_CandidateIdsResolve ==
    /\ \A fileId \in Range(sess.files) :
         LET entries == createAdjustedCards(fileId, sess.detectedCards, sess.adjustments)
         IN \A i \in 1..Len(entries) :
              /\ entries[i].card # NullCard
              /\ Resolved(fileId, entries[i].id) = entries[i].card
    /\ ps.lastOp = "save" =>
         \A i \in 1..Len(savedPairs) :
           /\ Resolved(savedPairs[i].primaryFileId, savedPairs[i].primaryDetectionId)
                = frontCards[i].card
           /\ savedPairs[i].secondaryDetectionId # Undefined =>
                Resolved(savedPairs[i].secondaryFileId, savedPairs[i].secondaryDetectionId)
                  = CardWithId(backCards, savedPairs[i].secondaryDetectionId)

\* Pairs were saved for a front photo with an automatic and a manual candidate and a
\* back photo with detections.
C38_Witness ==
    /\ ps.lastOp = "save"
    /\ \E i, j \in 1..Len(savedPairs) :
         /\ frontCards[i].source = "manual"
         /\ frontCards[j].source = "auto"
         /\ savedPairs[i].primaryDetectionId = frontCards[i].id
         /\ savedPairs[j].secondaryDetectionId # Undefined

====
